---- MODULE Spec2Model ----
(***************************************************************************)
(* Model of the Projection UI host: the session core of                   *)
(* slint/ui_host_runtime/src/lib.rs (identical in slint/ui_host/src/main.rs *)
(* and the patch_apply.rs template), the patch applier and the stdio       *)
(* protocol of slint/ui_host/src/protocol.rs.                              *)
(*                                                                         *)
(* Representation.                                                         *)
(*  - A serde_json::Value is a tagged tuple: <<"null">>, <<"bool", b>>,    *)
(*    <<"num", n>>, <<"str", s>>, <<"arr", seq>>, <<"obj", map>>; a map is *)
(*    a function from keys to values.                                      *)
(*  - A path, a pointer token and an object key are Rust strings the code  *)
(*    takes apart character by character; they are sequences of one-       *)
(*    character strings (<<"/", "a">> is "/a").                            *)
(*  - Option<T> is <<>> for None and <<v>> for Some(v).                    *)
(*  - u64 arithmetic wraps modulo U64Mod = 2^U64Bits; U64Bits stands for   *)
(*    64 (TLC's integers are 32 bits wide).                                *)
(***************************************************************************)
EXTENDS Integers, Sequences, FiniteSets, TLC

(***************************************************************************)
(* Bounds of the model.                                                    *)
(***************************************************************************)
\* width of the modelled u64 (stands for 64)
U64Bits == 2
\* frames the reader thread reads before the stream ends
MaxInbound == 3
\* callbacks the toolkit fires
MaxIntents == 2
\* intents fired at the queue under backpressure
MaxFired == 17
\* callbacks fired with an empty name
MaxEmpty == 1
\* PROJECTION_UI_OUTBOUND_QUEUE_CAP of the run
QueueCap == 2
\* patch operations applied to one document
MaxPatchOps == 2
\* length up to which every payload over FrameBytes is framed
MaxShortPayload == 3

\* ScreenId values the toolkit adapter hands out: 0 .. MaxScreenId
MaxScreenId == 1

U64Mod == 2 ^ U64Bits
U64 == 0 .. (U64Mod - 1)
\* Option<T>: None, Some(v)
None == <<>>
Some(v) == <<v>>
Unwrap(opt) == opt[1]
OptionU64 == {None} \cup {Some(v) : v \in U64}

(***************************************************************************)
(* serde_json::Value                                                       *)
(***************************************************************************)
JNull == <<"null">>
JBool(b) == <<"bool", b>>
JNum(n) == <<"num", n>>
JStr(s) == <<"str", s>>
JArr(items) == <<"arr", items>>
JObj(map) == <<"obj", map>>
EmptyObject == JObj(<<>>)

IsObject(v) == v[1] = "obj"
IsArray(v) == v[1] = "arr"
IsStr(v) == v[1] = "str"

\* serde_json::Map::insert / remove / contains_key
MapInsert(map, key, value) == (key :> value) @@ map
MapRemove(map, key) == [k \in (DOMAIN map) \ {key} |-> map[k]]
MapHas(map, key) == key \in DOMAIN map

\* Vec: items[index] = value (index from 0), items.remove(index)
VecSet(items, index, value) == [items EXCEPT ![index + 1] = value]
VecRemove(items, index) ==
    [i \in 1 .. (Len(items) - 1) |-> IF i <= index THEN items[i] ELSE items[i + 1]]

\* Result<T, String>: the error text is not modelled, val is what the call left
Ok(v) == [ok |-> TRUE, val |-> v]
Err(v) == [ok |-> FALSE, val |-> v]

(***************************************************************************)
(* JSON pointer parsing (lib.rs 693-770)                                   *)
(***************************************************************************)
Digits == <<"0", "1", "2", "3", "4", "5", "6", "7", "8", "9">>
IsDigit(ch) == \E d \in 1 .. 10 : Digits[d] = ch
DigitVal(ch) == (CHOOSE d \in 1 .. 10 : Digits[d] = ch) - 1

RECURSIVE DecimalValue(_, _)
DecimalValue(chars, acc) ==
    IF chars = <<>> THEN acc
    ELSE DecimalValue(Tail(chars), acc * 10 + DigitVal(Head(chars)))

\* str::parse::<usize>() of a token without its optional '+': one or more
\* decimal digits (values within the bounds of the model never overflow usize)
ParseDigits(digits) ==
    IF digits # <<>> /\ \A i \in 1 .. Len(digits) : IsDigit(digits[i])
    THEN Ok(DecimalValue(digits, 0))
    ELSE Err(0)

ParseUsize(token) ==
    ParseDigits(IF token # <<>> /\ Head(token) = "+" THEN Tail(token) ELSE token)

\* parse_index after token.parse::<usize>(), lib.rs 763-769
IndexWithin(index, max_len) ==
    IF ~index.ok THEN Err(0)
    ELSE IF index.val > max_len THEN Err(0)
    ELSE Ok(index.val)

parse_index(token, max_len) == IndexWithin(ParseUsize(token), max_len)

\* an unescape in two passes: "~0" is turned into '~' first, and that '~'
\* is then read again with what follows it
RECURSIVE UnescapeTwoPasses(_, _)
UnescapeTwoPasses(chars, out) ==
    IF chars = <<>> THEN Ok(out)
    ELSE IF Head(chars) = "~"
    THEN IF Len(chars) < 2 THEN Err(<<>>)
         ELSE IF chars[2] = "0"
         THEN IF Len(chars) = 2 THEN Ok(Append(out, "~"))
              ELSE UnescapeTwoPasses(<<"~">> \o SubSeq(chars, 3, Len(chars)), out)
         ELSE IF chars[2] = "1"
         THEN UnescapeTwoPasses(SubSeq(chars, 3, Len(chars)), Append(out, "/"))
         ELSE Err(<<>>)
    ELSE UnescapeTwoPasses(Tail(chars), Append(out, Head(chars)))

\* the loop of unescape_json_pointer_token over the characters left, with the
\* String `out` built so far
RECURSIVE UnescapeFrom(_, _)
UnescapeFrom(chars, out) ==
    IF chars = <<>> THEN Ok(out)
    ELSE IF Head(chars) = "~"
    THEN IF Len(chars) < 2 THEN Err(<<>>)
         ELSE IF chars[2] = "0" THEN UnescapeFrom(SubSeq(chars, 3, Len(chars)), Append(out, "~"))
         ELSE IF chars[2] = "1" THEN UnescapeFrom(SubSeq(chars, 3, Len(chars)), Append(out, "/"))
         ELSE Err(<<>>)
    ELSE UnescapeFrom(Tail(chars), Append(out, Head(chars)))

unescape_json_pointer_token(token) == UnescapeFrom(token, <<>>)

\* str::split('/'): the pieces between the slashes, in order
RECURSIVE SplitSlash(_, _)
SplitSlash(chars, piece) ==
    IF chars = <<>> THEN <<piece>>
    ELSE IF Head(chars) = "/" THEN <<piece>> \o SplitSlash(Tail(chars), <<>>)
    ELSE SplitSlash(Tail(chars), Append(piece, Head(chars)))

\* collect::<Result<Vec<String>, String>>() of the unescaped pieces
CollectTokens(parsed) ==
    IF \A i \in DOMAIN parsed : parsed[i].ok
    THEN Ok([i \in DOMAIN parsed |-> parsed[i].val])
    ELSE Err(<<>>)

\* .map(unescape_json_pointer_token).collect()
UnescapePieces(pieces) ==
    CollectTokens([i \in DOMAIN pieces |-> unescape_json_pointer_token(pieces[i])])

parse_pointer(path) ==
    IF path = <<>> THEN Ok(<<>>)
    ELSE IF Head(path) # "/" THEN Err(<<>>)
    ELSE UnescapePieces(Tail(SplitSlash(path, <<>>)))

(***************************************************************************)
(* set_path / remove_path (lib.rs 612-756).  The code walks the document   *)
(* by mutable reference; here a descent returns the value the reference    *)
(* points at, and the walk writes what became of it back into its parent.  *)
(* A walk returns the visited value as it left it, also when it failed:    *)
(* [ok, val].                                                              *)
(***************************************************************************)
\* items.get_mut(index) for a parsed index
GetMut(items, index) ==
    IF index.ok /\ index.val < Len(items) THEN Ok(items[index.val + 1]) ELSE Err(JNull)

\* descend_or_create: the value the returned reference points at (a missing
\* key is inserted with an empty object)
descend_or_create(value, token) ==
    IF IsObject(value)
    THEN Ok(IF MapHas(value[2], token) THEN value[2][token] ELSE EmptyObject)
    ELSE IF IsArray(value) THEN GetMut(value[2], parse_index(token, Len(value[2])))
    ELSE Err(JNull)

\* a descent for remove_path that creates what is missing
DescendExistingCreates(value, token) == descend_or_create(value, token)

\* descend_existing: Some(reference) is Ok(value pointed at), None is Err
descend_existing(value, token) ==
    IF IsObject(value)
    THEN IF MapHas(value[2], token) THEN Ok(value[2][token]) ELSE Err(JNull)
    ELSE IF IsArray(value) THEN GetMut(value[2], ParseUsize(token))
    ELSE Err(JNull)

\* the container `current` once the value its entry `token` refers to is `child`
WriteBack(current, token, child) ==
    IF IsObject(current) THEN JObj(MapInsert(current[2], token, child))
    ELSE JArr(VecSet(current[2], ParseUsize(token).val, child))

\* the outcome of a walk at `current`, from the outcome below its entry `token`
Rejoin(current, token, below) ==
    [ok |-> below.ok, val |-> WriteBack(current, token, below.val)]

\* the array arm of set_path's terminal write, lib.rs 638-647
SetItem(current, index, value) ==
    IF ~index.ok THEN Err(current)
    ELSE IF index.val = Len(current[2]) THEN Ok(JArr(Append(current[2], value)))
    ELSE Ok(JArr(VecSet(current[2], index.val, value)))

\* the terminal write of set_path, lib.rs 628-649
SetTerminal(current, last, value, replace_only) ==
    IF IsObject(current)
    THEN IF replace_only /\ ~MapHas(current[2], last)
         THEN Err(current)
         ELSE Ok(JObj(MapInsert(current[2], last, value)))
    ELSE IF IsArray(current)
    THEN SetItem(current, parse_index(last, Len(current[2])), value)
    ELSE Err(current)

\* set_path from `current` on (lib.rs 620-649): the descent through
\* descend_or_create over all tokens but the last, then the terminal write
RECURSIVE SetWalk(_, _, _, _)
SetBelow(current, tokens, value, replace_only, child) ==
    IF ~child.ok THEN Err(current)
    ELSE Rejoin(current, Head(tokens),
                SetWalk(child.val, Tail(tokens), value, replace_only))

SetWalk(current, tokens, value, replace_only) ==
    IF Len(tokens) = 1 THEN SetTerminal(current, tokens[1], value, replace_only)
    ELSE SetBelow(current, tokens, value, replace_only,
                  descend_or_create(current, Head(tokens)))

\* a set_path that leaves the root alone when the path is empty
SetTokensKeepsRoot(root, tokens, value, replace_only) ==
    IF ~tokens.ok THEN Err(root)
    ELSE IF tokens.val = <<>> THEN Ok(root)
    ELSE SetWalk(root, tokens.val, value, replace_only)

\* a set_path that hands the root back as it found it when the walk fails
SetTokensRollsBack(root, tokens, value, replace_only) ==
    IF ~tokens.ok THEN Err(root)
    ELSE IF tokens.val = <<>> THEN Ok(value)
    ELSE IF SetWalk(root, tokens.val, value, replace_only).ok
    THEN SetWalk(root, tokens.val, value, replace_only)
    ELSE Err(root)

\* set_path after parse_pointer(path)
SetTokens(root, tokens, value, replace_only) ==
    IF ~tokens.ok THEN Err(root)
    ELSE IF tokens.val = <<>> THEN Ok(value)
    ELSE SetWalk(root, tokens.val, value, replace_only)

set_path(root, path, value, replace_only) ==
    SetTokens(root, parse_pointer(path), value, replace_only)

saturating_sub(a, b) == IF a < b THEN 0 ELSE a - b

\* the array arm of remove_path's terminal removal, lib.rs 678-686
RemoveItem(current, index) ==
    IF ~index.ok THEN Err(current)
    ELSE IF index.val < Len(current[2]) THEN Ok(JArr(VecRemove(current[2], index.val)))
    ELSE Err(current)

\* the terminal removal of remove_path, lib.rs 669-690
RemoveTerminal(current, last) ==
    IF IsObject(current)
    THEN IF MapHas(current[2], last)
         THEN Ok(JObj(MapRemove(current[2], last)))
         ELSE Err(current)
    ELSE IF IsArray(current)
    THEN RemoveItem(current, parse_index(last, saturating_sub(Len(current[2]), 1)))
    ELSE Err(current)

\* remove_path from `current` on (lib.rs 660-690): the descent through
\* descend_existing over all tokens but the last, then the removal
RECURSIVE RemoveWalk(_, _)
RemoveBelow(current, tokens, child) ==
    IF ~child.ok THEN Err(current)
    ELSE Rejoin(current, Head(tokens), RemoveWalk(child.val, Tail(tokens)))

RemoveWalk(current, tokens) ==
    IF Len(tokens) = 1 THEN RemoveTerminal(current, tokens[1])
    ELSE RemoveBelow(current, tokens, descend_existing(current, Head(tokens)))

\* remove_path after parse_pointer(path)
RemoveTokens(root, tokens) ==
    IF ~tokens.ok THEN Err(root)
    ELSE IF tokens.val = <<>> THEN Ok(EmptyObject)
    ELSE RemoveWalk(root, tokens.val)

remove_path(root, path) == RemoveTokens(root, parse_pointer(path))

\* PatchOp: <<"replace", path, value>>, <<"add", path, value>>, <<"remove", path>>
ApplyOp(vm, op) ==
    IF op[1] = "replace" THEN set_path(vm, op[2], op[3], TRUE)
    ELSE IF op[1] = "add" THEN set_path(vm, op[2], op[3], FALSE)
    ELSE remove_path(vm, op[2])

\* the loop of apply_vm_patch_ops over the ops left; `done` is the outcome of
\* the ops before them, and the first error ends the loop (the `?`)
RECURSIVE ApplyOps(_, _)
ApplyOps(done, ops) ==
    IF ops = <<>> \/ ~done.ok THEN done
    ELSE ApplyOps(ApplyOp(done.val, Head(ops)), Tail(ops))

\* an apply_vm_patch_ops that gives the document back as it was on an error
ApplyOpsRollback(vm, ops) ==
    IF ApplyOps(Ok(vm), ops).ok THEN ApplyOps(Ok(vm), ops) ELSE Err(vm)

apply_vm_patch_ops(vm, ops) == ApplyOps(Ok(vm), ops)

\* the turns the loop of apply_vm_patch_ops takes: the ops it hands to
\* set_path or remove_path
RECURSIVE LoopTurns(_, _)
LoopTurns(done, ops) ==
    IF ops = <<>> \/ ~done.ok THEN 0
    ELSE 1 + LoopTurns(ApplyOp(done.val, Head(ops)), Tail(ops))

(***************************************************************************)
(* Inputs the controller and the toolkit can supply.                       *)
(***************************************************************************)
\* PROJECTION_SID unset: the local sid is "S1" (lib.rs 86)
LocalSid == "S1"
Sids == {"S1", "S2"}

K_app == <<"a", "p", "p">>
K_title == <<"t", "i", "t", "l", "e">>
K_screen == <<"s", "c", "r", "e", "e", "n">>
K_name == <<"n", "a", "m", "e">>
K_n == <<"n">>
K_missing == <<"m", "i", "s", "s", "i", "n", "g">>
\* the path "/t1/t2/..." of tokens that need no escape
RECURSIVE Path(_)
Path(tokens) ==
    IF tokens = <<>> THEN <<>> ELSE <<"/">> \o Head(tokens) \o Path(Tail(tokens))
ScreenNamePath == Path(<<K_screen, K_name>>)

VmHome ==
    JObj((K_app :> JObj(K_title :> JStr("X")))
         @@ (K_screen :> JObj(K_name :> JStr("home"))))
\* the vm of a render envelope
RenderVms == <<VmHome, EmptyObject>>

\* the ops of a patch envelope
OpsTitle == << <<"replace", Path(<<K_app, K_title>>), JStr("Y")>> >>
OpsSwap == << <<"replace", ScreenNamePath, JStr("devices")>> >>
OpsPartial == << <<"add", Path(<<K_n>>), JNum(1)>>, <<"remove", Path(<<K_missing>>)>> >>
PatchOps == <<OpsTitle, OpsSwap, OpsPartial>>

ScreenIds == 0 .. MaxScreenId
\* what B::apply_screen_render can return: an error, or any ScreenId
ScreenRenderResults == {Err(0)} \cup {Ok(id) : id \in ScreenIds}

\* the ack of a patch envelope
Acks == {None, Some(1), Some(2)}

ErrorCodes == {"decode_error", "frame_too_large", "invalid_envelope",
               "resync_required", "rev_mismatch", "patch_apply_error",
               "validation_warning"}

\* the callbacks install_callbacks binds; on_intent stands for the bridge and
\* the ui intent callback, which run the same handler
CallbackThreads == {"on_intent", "on_navigate"}

(***************************************************************************)
(* Outbound envelopes (protocol.rs 9-81).  big: the envelope encodes to    *)
(* more than UI_TO_ELIXIR_CAP bytes (an intent's payload is unbounded).    *)
(***************************************************************************)
ready_envelope(sid) == [t |-> "ready", sid |-> sid, id |-> 0, big |-> FALSE]
intent_envelope(sid, id, big) == [t |-> "intent", sid |-> sid, id |-> id, big |-> big]

(***************************************************************************)
(* Session state (lib.rs 58-75) and the revision guards (lib.rs 496-543)   *)
(***************************************************************************)
UiModelStateDefault ==
    [screen_id |-> 0, vm |-> EmptyObject, last_rev |-> None, last_ack |-> None]

wrapping_add(a, b) == (a + b) % U64Mod

\* Faulty variants of the revision guards, which the properties below must tell
\* from the guards of the code.
\* a render guard that accepts every rev
RenderRevUnchecked(state, rev) == TRUE

\* a render guard whose r + 1 does not wrap
RenderRevNoWrap(state, rev) ==
    IF state.last_rev # None
    THEN rev = Unwrap(state.last_rev) + 1
    ELSE TRUE

\* a patch guard that admits a first revision as the render guard does
PatchRevAdmitsFirst(state, rev) ==
    IF state.last_rev # None
    THEN rev = wrapping_add(Unwrap(state.last_rev), 1)
    ELSE TRUE

\* TRUE for Ok(()), FALSE for Err(_)
validate_render_rev(state, rev) ==
    IF state.last_rev # None
    THEN rev = wrapping_add(Unwrap(state.last_rev), 1)
    ELSE TRUE

validate_patch_rev(state, rev) ==
    IF state.last_rev # None
    THEN rev = wrapping_add(Unwrap(state.last_rev), 1)
    ELSE FALSE

mark_applied_rev(state, rev) == [state EXCEPT !.last_rev = Some(rev)]

\* an ack merge that stores the patch's ack whatever the current one is
MarkAckOverwrites(state, ack) ==
    IF ack = None THEN state ELSE [state EXCEPT !.last_ack = ack]

mark_applied_ack(state, ack) ==
    IF ack = None THEN state
    ELSE IF state.last_ack = None THEN [state EXCEPT !.last_ack = ack]
    ELSE [state EXCEPT !.last_ack =
             Some(IF Unwrap(state.last_ack) >= Unwrap(ack)
                  THEN Unwrap(state.last_ack) ELSE Unwrap(ack))]

\* a faulty reset that leaves the state as it is
ResetKeepsState(state) == state

reset_for_resync(state) == UiModelStateDefault

\* a patch_changes_screen that looks at the first op only
FirstOpChangesScreen(ops) == ops # <<>> /\ ops[1][2] = ScreenNamePath

\* B::patch_changes_screen is the trait's default, path == "/screen/name"
patch_changes_screen(ops) == \E i \in 1 .. Len(ops) : ops[i][2] = ScreenNamePath

(***************************************************************************)
(* apply_global_props (lib.rs 449-486)                                     *)
(***************************************************************************)
K_nav == <<"n", "a", "v">>
K_stack == <<"s", "t", "a", "c", "k">>
K_vm == <<"v", "m">>
K_message == <<"m", "e", "s", "s", "a", "g", "e">>
K_screen_module == <<"s", "c", "r", "e", "e", "n", "_", "m", "o", "d", "u", "l", "e">>

\* the index serde_json's Value::pointer reads from a token below an array:
\* no sign, no leading zero
PointerIndex(token) ==
    IF token = <<>> THEN Err(0)
    ELSE IF Head(token) = "+" THEN Err(0)
    ELSE IF Head(token) = "0" /\ Len(token) # 1 THEN Err(0)
    ELSE ParseUsize(token)

\* Value::pointer on the tokens of the path: Some(value) or None
RECURSIVE pointer(_, _)
PointerItem(items, index, tokens) ==
    IF index.ok /\ index.val < Len(items)
    THEN pointer(items[index.val + 1], tokens)
    ELSE None

pointer(value, tokens) ==
    IF tokens = <<>> THEN Some(value)
    ELSE IF IsObject(value)
    THEN IF MapHas(value[2], Head(tokens))
         THEN pointer(value[2][Head(tokens)], Tail(tokens))
         ELSE None
    ELSE IF IsArray(value)
    THEN PointerItem(value[2], PointerIndex(Head(tokens)), Tail(tokens))
    ELSE None

\* .and_then(Value::as_str).unwrap_or(default)
AsStrOr(found, default) ==
    IF found = None THEN default
    ELSE IF Unwrap(found)[1] = "str" THEN Unwrap(found)[2]
    ELSE default

\* .and_then(Value::as_array).map(|stack| stack.len() > bound).unwrap_or(false)
LongerThan(found, bound) ==
    IF found = None THEN FALSE
    ELSE IF Unwrap(found)[1] = "arr" THEN Len(Unwrap(found)[2]) > bound
    ELSE FALSE

\* an apply_global_props that allows going back from a stack of one
GlobalPropsBackAtOne(vm) ==
    [app_title |-> AsStrOr(pointer(vm, <<K_app, K_title>>), "Projection"),
     active_screen |-> AsStrOr(pointer(vm, <<K_screen, K_name>>), "error"),
     nav_can_back |-> LongerThan(pointer(vm, <<K_nav, K_stack>>), 0),
     error_title |-> AsStrOr(pointer(vm, <<K_screen, K_vm, K_title>>), ""),
     error_message |-> AsStrOr(pointer(vm, <<K_screen, K_vm, K_message>>), ""),
     error_screen_module |-> AsStrOr(pointer(vm, <<K_screen, K_vm, K_screen_module>>), "")]

\* the values apply_global_props hands to the six setters of the binding
apply_global_props(vm) ==
    [app_title |-> AsStrOr(pointer(vm, <<K_app, K_title>>), "Projection"),
     active_screen |-> AsStrOr(pointer(vm, <<K_screen, K_name>>), "error"),
     nav_can_back |-> LongerThan(pointer(vm, <<K_nav, K_stack>>), 1),
     error_title |-> AsStrOr(pointer(vm, <<K_screen, K_vm, K_title>>), ""),
     error_message |-> AsStrOr(pointer(vm, <<K_screen, K_vm, K_message>>), ""),
     error_screen_module |-> AsStrOr(pointer(vm, <<K_screen, K_vm, K_screen_module>>), "")]

\* the properties the toolkit holds after the render closure: apply_render
\* pushes them once the guards have passed, before the screen is applied
\* (lib.rs 128-147, 425-426)
render_pushes(props, state, sid, rev, vm) ==
    IF sid # LocalSid THEN props
    ELSE IF ~validate_render_rev(state, rev) THEN props
    ELSE Some(apply_global_props(vm))

\* the outcome of apply_vm_patch_ops decides whether apply_patch pushes
PatchPushes(props, applied) ==
    IF applied.ok THEN Some(apply_global_props(applied.val)) ELSE props

\* the properties the toolkit holds after the patch closure: apply_patch
\* pushes them once the guards have passed and the ops were applied
\* (lib.rs 186-205, 437-438)
patch_pushes(props, state, sid, rev, ops) ==
    IF sid # LocalSid THEN props
    ELSE IF ~validate_patch_rev(state, rev) THEN props
    ELSE PatchPushes(props, apply_vm_patch_ops(state.vm, ops))

\* apply_render, lib.rs 420-430; screen_render is B::apply_screen_render's result
\* an apply_render that drops the id apply_screen_render returned
ApplyRenderDropsId(state, vm, screen_render) ==
    IF ~screen_render.ok THEN Err([state EXCEPT !.vm = vm])
    ELSE Ok([state EXCEPT !.vm = vm])

apply_render(state, vm, screen_render) ==
    LET assigned == [state EXCEPT !.vm = vm]
    IN  IF ~screen_render.ok THEN Err(assigned)
        ELSE Ok([assigned EXCEPT !.screen_id = screen_render.val])

\* apply_patch after apply_vm_patch_ops (lib.rs 436-446); `applied` is its
\* outcome on state.vm.  The code calls B::apply_screen_render or
\* B::apply_screen_patch, and `adapter` is the result of the one it calls
\* (of apply_screen_patch's Result<(), String> only .ok is read)
ApplyPatchScreen(state, ops, adapter, applied) ==
    LET mutated == [state EXCEPT !.vm = applied.val]
    IN  IF ~applied.ok THEN Err(mutated)
        ELSE IF patch_changes_screen(ops)
        THEN IF ~adapter.ok THEN Err(mutated)
             ELSE Ok([mutated EXCEPT !.screen_id = adapter.val])
        ELSE IF adapter.ok THEN Ok(mutated) ELSE Err(mutated)

\* apply_patch, lib.rs 432-447
apply_patch(state, ops, adapter) ==
    ApplyPatchScreen(state, ops, adapter, apply_vm_patch_ops(state.vm, ops))

\* the screen function of the binding apply_patch calls: none when the ops
\* failed on the vm (lib.rs 437, 440-446)
apply_patch_calls(state, ops) ==
    IF ~apply_vm_patch_ops(state.vm, ops).ok THEN "none"
    ELSE IF patch_changes_screen(ops) THEN "apply_screen_render"
    ELSE "apply_screen_patch"

(***************************************************************************)
(* The UI-thread tasks the reader posts (lib.rs 114-164 and 172-222).      *)
(* The lock of the state mutex cannot fail: only these tasks take it, and  *)
(* none of them panics while holding it.                                   *)
(* Result: the state the task leaves, how it ended, and whether it stored  *)
(* false into resync_pending.                                              *)
(***************************************************************************)
\* the render closure from apply_render's result on (lib.rs 147-163)
RenderApplied(applied, rev) ==
    IF ~applied.ok
    THEN [state |-> reset_for_resync(applied.val), outcome |-> "apply_failed",
          store_false |-> FALSE]
    ELSE [state |-> mark_applied_rev(applied.val, rev), outcome |-> "applied",
          store_false |-> TRUE]

render_task(state, sid, rev, vm, screen_render) ==
    IF sid # LocalSid
    THEN [state |-> reset_for_resync(state), outcome |-> "sid_mismatch",
          store_false |-> FALSE]
    ELSE IF ~validate_render_rev(state, rev)
    THEN [state |-> reset_for_resync(state), outcome |-> "rev_rejected",
          store_false |-> FALSE]
    ELSE RenderApplied(apply_render(state, vm, screen_render), rev)

\* faulty variants of the patch closure: one that keeps what a failed apply
\* left, one that clears resync_pending as a render does
PatchAppliedNoReset(applied, rev, ack) ==
    IF ~applied.ok
    THEN [state |-> applied.val, outcome |-> "apply_failed", store_false |-> FALSE]
    ELSE [state |-> mark_applied_ack(mark_applied_rev(applied.val, rev), ack),
          outcome |-> "applied", store_false |-> FALSE]

PatchAppliedClears(applied, rev, ack) ==
    IF ~applied.ok
    THEN [state |-> reset_for_resync(applied.val), outcome |-> "apply_failed",
          store_false |-> FALSE]
    ELSE [state |-> mark_applied_ack(mark_applied_rev(applied.val, rev), ack),
          outcome |-> "applied", store_false |-> TRUE]

\* the patch closure from apply_patch's result on (lib.rs 205-221)
PatchApplied(applied, rev, ack) ==
    IF ~applied.ok
    THEN [state |-> reset_for_resync(applied.val), outcome |-> "apply_failed",
          store_false |-> FALSE]
    ELSE [state |-> mark_applied_ack(mark_applied_rev(applied.val, rev), ack),
          outcome |-> "applied", store_false |-> FALSE]

\* a faulty patch closure without the sid guard
PatchTaskNoSidGuard(state, sid, rev, ack, ops, adapter) ==
    IF ~validate_patch_rev(state, rev)
    THEN [state |-> reset_for_resync(state), outcome |-> "rev_rejected",
          store_false |-> FALSE]
    ELSE PatchApplied(apply_patch(state, ops, adapter), rev, ack)

patch_task(state, sid, rev, ack, ops, adapter) ==
    IF sid # LocalSid
    THEN [state |-> reset_for_resync(state), outcome |-> "sid_mismatch",
          store_false |-> FALSE]
    ELSE IF ~validate_patch_rev(state, rev)
    THEN [state |-> reset_for_resync(state), outcome |-> "rev_rejected",
          store_false |-> FALSE]
    ELSE PatchApplied(apply_patch(state, ops, adapter), rev, ack)

\* a should_resync_for_error without the code of a failed patch
ResyncWithoutPatchError(code) ==
    code \in {"decode_error", "frame_too_large", "invalid_envelope",
              "resync_required", "rev_mismatch"}

should_resync_for_error(code) ==
    code \in {"decode_error", "frame_too_large", "invalid_envelope",
              "resync_required", "rev_mismatch", "patch_apply_error"}

\* request_resync up to its compare_exchange (lib.rs 408-413): the flag it
\* leaves, and whether the call goes on to enqueue_control_envelope
request_resync(pending) == [pending |-> TRUE, enqueue |-> ~pending]

\* a faulty control-envelope policy that gives the envelope up on Full, and a
\* faulty send_intent that enqueues on Full instead of counting a drop
EnqueueControlDropsOnFull(queue, blocked, connected, envelope) ==
    IF ~connected THEN [chan |-> queue, workers |-> blocked, lost |-> 1]
    ELSE IF Len(queue) < QueueCap
    THEN [chan |-> Append(queue, envelope), workers |-> blocked, lost |-> 0]
    ELSE [chan |-> queue, workers |-> blocked, lost |-> 0]

SendIntentOverfills(queue, dropped, connected, envelope) ==
    IF ~connected THEN [chan |-> queue, dropped |-> dropped]
    ELSE [chan |-> Append(queue, envelope), dropped |-> dropped]

\* an enqueue_control_envelope that pushes onto a full queue
EnqueueControlOverfills(queue, blocked, connected, envelope) ==
    IF ~connected THEN [chan |-> queue, workers |-> blocked, lost |-> 1]
    ELSE [chan |-> Append(queue, envelope), workers |-> blocked, lost |-> 0]

DEFAULT_UI_OUTBOUND_QUEUE_CAP == 256

\* parse_outbound_queue_capacity (lib.rs 592-598) on what the environment
\* holds: None for an unset variable or one that is no usize, Some(n) else
parse_outbound_queue_capacity(raw) ==
    IF raw = None THEN DEFAULT_UI_OUTBOUND_QUEUE_CAP
    ELSE IF Unwrap(raw) > 0 THEN Unwrap(raw)
    ELSE DEFAULT_UI_OUTBOUND_QUEUE_CAP

\* enqueue_control_envelope (lib.rs 557-578) on a queue with `blocked` workers
\* waiting in tx.send; connected: the receiver has not been dropped.
\* lost: the envelope was given up (Disconnected).
enqueue_control_envelope(queue, blocked, connected, envelope) ==
    IF ~connected THEN [chan |-> queue, workers |-> blocked, lost |-> 1]
    ELSE IF Len(queue) < QueueCap
    THEN [chan |-> Append(queue, envelope), workers |-> blocked, lost |-> 0]
    ELSE [chan |-> queue, workers |-> blocked + 1, lost |-> 0]

\* u64::count_ones and u64::is_power_of_two
RECURSIVE count_ones(_)
count_ones(n) == IF n = 0 THEN 0 ELSE (n % 2) + count_ones(n \div 2)

\* a test that takes every even count for a power of two
IsEvenCount(n) == n % 2 = 0

is_power_of_two(n) == count_ones(n) = 1

\* the condition of the drop report of send_intent, lib.rs 389
DropReported(dropped) == dropped = 1 \/ is_power_of_two(dropped)

\* a send_intent that counts an intent given up on a disconnected queue as
\* dropped
SendIntentCountsDisconnected(queue, dropped, connected, envelope) ==
    IF ~connected THEN [chan |-> queue, dropped |-> wrapping_add(dropped, 1)]
    ELSE IF Len(queue) < QueueCap
    THEN [chan |-> Append(queue, envelope), dropped |-> dropped]
    ELSE [chan |-> queue, dropped |-> wrapping_add(dropped, 1)]

\* send_intent from its try_send on (lib.rs 385-398)
send_intent(queue, dropped, connected, envelope) ==
    IF ~connected THEN [chan |-> queue, dropped |-> dropped]
    ELSE IF Len(queue) < QueueCap
    THEN [chan |-> Append(queue, envelope), dropped |-> dropped]
    ELSE [chan |-> queue, dropped |-> wrapping_add(dropped, 1)]

(***************************************************************************)
(* State                                                                   *)
(***************************************************************************)
VARIABLES
    ui_model_state,        \* Mutex<UiModelState>
    resync_pending,        \* AtomicBool
    next_intent_id,        \* AtomicU64
    dropped_intent_count,  \* AtomicU64
    chan,                  \* the buffer of mpsc::sync_channel(outbound_queue_cap)
    workers,               \* control-envelope workers blocked in tx.send
    writer,                \* writer thread: "running", "ok" or "err" (returned)
    stdout,                \* the envelopes framed and flushed to stdout
    main_pc,               \* run(): "send_ready", "loop", "exited", "joining", "done"
    exit_code,             \* the status the process ended with, None while it runs
    err_env,               \* the Error envelope the reader handled last, when it is recorded
    reader_pc,             \* reader thread: "unborn", "read", "enqueue", "done"
    reader_result,         \* what reader_loop returned: "none", "ok", "err"
    reader_cause,          \* what ended reader_loop: "none", or the frame it met
    frames_read,           \* frames the reader has decoded
    ui_tasks,              \* closures queued in the toolkit event loop
    ui_pc,                 \* UI thread: "idle", or "enqueue" inside request_resync
    cb,                    \* per callback: the intent envelope built, if any
    ev,                    \* history: the last UI task that ran, with what its
                           \* envelope was to the state it met (Seen)
    prev_applied,          \* history: the rev of the last applied envelope
    h_expected,            \* history: the last applied render's vm with the ops of the
                           \* patches applied since; {} once a task has failed
    ctrl_handed,           \* history: envelopes handed to a blocking or control send
    ctrl_lost,             \* history: control envelopes given up as Disconnected
    ctrl_spawned,          \* history: workers spawned by enqueue_control_envelope
    h_resyncs,             \* history: calls of enqueue_control_envelope by request_resync
                           \* since the last applied render (or since startup)
    h_ids,                 \* history: the ids returned by the fetch_add of send_intent
    h_lost,                \* history: the intents not enqueued, with the reason
    h_empty,               \* history: the callbacks fired with an empty name
    h_enqueued,            \* history: the envelopes the queue accepted, in order
    h_ack_max,             \* history: the largest ack of the patches applied since
                           \* the last reset (or since startup), None if there is none
    h_screen,              \* history: the id the last successful apply_screen_render
                           \* returned since the last reset, None if there was none
    ui_props,              \* the global properties the toolkit holds since the last
                           \* apply_global_props, None before the first
    patched,               \* patch applier: the document after the last operation
    patched_from,          \* patch applier: the document that operation was given
    patch_op,              \* patch applier: the last operation, <<>> before the first
    patch_ok,              \* patch applier: whether it returned Ok
    patch_tokens,          \* patch applier: what parse_pointer made of its path
    patch_count,           \* patch applier: operations applied so far
    patch_list,            \* patch applier: the ops handed to apply_vm_patch_ops
    patch_pc,              \* patch applier: "idle", "drawn", "applied"
    screen_ops,            \* apply_patch: the ops it was given
    screen_from,           \* apply_patch: the UiModelState it was given
    screen_state,          \* apply_patch: the UiModelState it left
    screen_result,         \* apply_patch: what the binding's screen function returned
    screen_call,           \* apply_patch: the screen function it called, or "none"
    screen_ok,             \* apply_patch: whether it returned Ok
    screen_pc,             \* apply_patch: "idle", "drawn", "applied"
    frame_payload,         \* framing: the payload handed to write_frame
    frame_max,             \* framing: max_payload of write_frame and read_frame
    frame_pc,              \* framing: "idle", "drawn", "written" or "read"
    frame_out,             \* framing: the Vec<u8> write_frame wrote to
    frame_written,         \* framing: whether write_frame returned Ok
    frame_back,            \* framing: what read_frame returned from that Vec
    frame_in,              \* framing: the bytes of the stream read_frame was given
    frame_kind,            \* framing: the io::ErrorKind of read_frame's error, or "none"
    frame_pos,             \* framing: how many bytes of the stream read_frame consumed
    frame_wkind,           \* framing: the io::ErrorKind of write_frame's error, or "none"
    bp_cap,                \* backpressure: the capacity of the sync_channel
    bp_writer,             \* backpressure: "blocked" or "running"
    bp_queue,              \* backpressure: the ids of the intents the channel buffers
    bp_next,               \* backpressure: next_intent_id
    bp_dropped,            \* backpressure: dropped_intent_count
    bp_log,                \* backpressure: the counts the drop reports carried
    answered               \* controller: the Readys it has answered with a render

vars == <<ui_model_state, resync_pending, next_intent_id, dropped_intent_count,
          chan, workers, writer, stdout, main_pc, exit_code, err_env, reader_pc, reader_result, reader_cause,
          frames_read, ui_tasks, ui_pc, cb, ev, prev_applied, h_expected,
          ctrl_handed, ctrl_lost, ctrl_spawned, h_resyncs, h_ids, h_enqueued,
          h_ack_max, h_screen, ui_props, h_lost, h_empty, patched, patched_from, patch_op, patch_ok, patch_tokens,
          patch_count, patch_list, patch_pc, screen_ops, screen_from, screen_state,
          screen_result, screen_call, screen_ok, screen_pc, frame_payload, frame_max, frame_pc, frame_out,
          frame_written, frame_back, frame_in, frame_kind, frame_pos, frame_wkind,
          bp_cap, bp_writer, bp_queue, bp_next, bp_dropped, bp_log, answered>>

session_vars == <<ui_model_state, ev, prev_applied, h_expected, h_ack_max, h_screen, ui_props>>
intent_vars == <<next_intent_id, dropped_intent_count, cb, h_ids, h_lost, h_empty>>
patch_vars == <<patched, patched_from, patch_op, patch_ok, patch_tokens, patch_count,
                patch_list, patch_pc>>
frame_vars == <<frame_payload, frame_max, frame_pc, frame_out, frame_written, frame_back,
                frame_in, frame_kind, frame_pos, frame_wkind>>
screen_vars == <<screen_ops, screen_from, screen_state, screen_result, screen_call,
                 screen_ok, screen_pc>>
bp_vars == <<bp_cap, bp_writer, bp_queue, bp_next, bp_dropped, bp_log>>
\* what the threads of the host leave alone: the variables of the functions
\* checked on their own, and the count the controller keeps
pure_vars == <<patch_vars, frame_vars, screen_vars, bp_vars, answered>>
reader_vars == <<reader_pc, reader_result, reader_cause, frames_read>>
ctrl_vars == <<ctrl_handed, ctrl_lost, ctrl_spawned, h_resyncs>>

NoIntent == [t |-> "none", sid |-> LocalSid, id |-> 0, big |-> FALSE]

\* run() up to the spawn of the writer (lib.rs 78-100)
HostInit ==
    /\ ui_model_state = UiModelStateDefault
    /\ resync_pending = FALSE
    /\ next_intent_id = 1
    /\ dropped_intent_count = 0
    /\ chan = <<>>
    /\ workers = 0
    /\ writer = "running"
    /\ stdout = <<>>
    /\ main_pc = "send_ready"
    /\ exit_code = None
    /\ err_env = None
    /\ reader_pc = "unborn"
    /\ reader_result = "none"
    /\ reader_cause = "none"
    /\ frames_read = 0
    /\ ui_tasks = <<>>
    /\ ui_pc = "idle"
    /\ cb = [c \in CallbackThreads |-> NoIntent]
    /\ ev = [kind |-> "none", outcome |-> "none", local |-> TRUE, had_rev |-> FALSE,
             is_next |-> FALSE]
    /\ prev_applied = None
    /\ h_expected = EmptyObject
    /\ ctrl_handed = 0
    /\ ctrl_lost = 0
    /\ ctrl_spawned = 0
    /\ h_resyncs = 0
    /\ h_ids = <<>>
    /\ h_lost = <<>>
    /\ h_empty = 0
    /\ h_enqueued = <<>>
    /\ h_ack_max = None
    /\ h_screen = None
    /\ ui_props = None
    /\ answered = 0

\* the patch applier at rest: no operation has been applied to a document
PatchIdle ==
    /\ patched = EmptyObject
    /\ patched_from = EmptyObject
    /\ patch_op = <<>>
    /\ patch_ok = TRUE
    /\ patch_tokens = Ok(<<>>)
    /\ patch_count = 0
    /\ patch_list = <<>>
    /\ patch_pc = "idle"

\* the framing functions at rest: nothing was handed to write_frame
FrameIdle ==
    /\ frame_payload = <<>>
    /\ frame_max = 0
    /\ frame_pc = "idle"
    /\ frame_out = <<>>
    /\ frame_written = FALSE
    /\ frame_back = Err(<<>>)
    /\ frame_in = <<>>
    /\ frame_kind = "none"
    /\ frame_pos = 0
    /\ frame_wkind = "none"

\* apply_patch at rest: it was not called
ScreenIdle ==
    /\ screen_ops = <<>>
    /\ screen_from = UiModelStateDefault
    /\ screen_state = UiModelStateDefault
    /\ screen_result = Err(0)
    /\ screen_call = "none"
    /\ screen_ok = TRUE
    /\ screen_pc = "idle"

\* no intent has been fired at the queue of capacity 1
BackpressureIdle ==
    /\ bp_cap = 1
    /\ bp_writer = "blocked"
    /\ bp_queue = <<>>
    /\ bp_next = 1
    /\ bp_dropped = 0
    /\ bp_log = <<>>

Init == HostInit /\ PatchIdle /\ FrameIdle /\ ScreenIdle /\ BackpressureIdle

Connected == writer = "running"

\* the history of accepted envelopes after a send that took the queue from
\* `before` to `after`: what the send appended to the queue, if anything
Accepted(history, before, after) ==
    IF Len(after) > Len(before) THEN Append(history, after[Len(after)]) ELSE history

(***************************************************************************)
(* Main thread (lib.rs 102-105 and 258-286)                                *)
(***************************************************************************)
\* a run() that spawns the reader thread before it sends its Ready
MainSpawnsReaderFirst ==
    /\ main_pc = "send_ready"
    /\ IF reader_pc = "unborn"
       THEN /\ reader_pc' = "read"
            /\ UNCHANGED <<chan, h_enqueued, ctrl_handed, main_pc>>
       ELSE /\ Len(chan) < QueueCap
            /\ chan' = Append(chan, ready_envelope(LocalSid))
            /\ h_enqueued' = Append(h_enqueued, ready_envelope(LocalSid))
            /\ ctrl_handed' = ctrl_handed + 1
            /\ main_pc' = "loop"
            /\ UNCHANGED reader_pc
    /\ UNCHANGED <<pure_vars,
                   session_vars, intent_vars, resync_pending, workers, writer, stdout,
                   reader_result, reader_cause, frames_read, ui_tasks, ui_pc, ctrl_lost, ctrl_spawned,
                   h_resyncs, exit_code, err_env>>

\* tx.send(ready_envelope(sid)), then the reader thread is spawned and the
\* event loop entered
MainSendReady ==
    /\ main_pc = "send_ready"
    /\ Len(chan) < QueueCap
    /\ chan' = Append(chan, ready_envelope(LocalSid))
    /\ h_enqueued' = Append(h_enqueued, ready_envelope(LocalSid))
    /\ ctrl_handed' = ctrl_handed + 1
    /\ main_pc' = "loop"
    /\ reader_pc' = "read"
    /\ UNCHANGED <<pure_vars,
                   session_vars, intent_vars, resync_pending, workers, writer, stdout,
                   reader_result, reader_cause, frames_read, ui_tasks, ui_pc, ctrl_lost, ctrl_spawned,
                   h_resyncs, exit_code, err_env>>

\* what run() returns after the event loop has ended: the results of the
\* joined reader and writer threads are printed and dropped
run_returns(reader, wr) == "ok"

\* main(): the status of the process, from what run() returned
exit_status(result) == IF result = "ok" THEN 0 ELSE 1

\* the process runs until main() returns; with it every thread ends
Alive == main_pc # "done"

\* drop(ui); drop(tx) (lib.rs 260-262)
MainDrop ==
    /\ main_pc = "exited"
    /\ main_pc' = "joining"
    /\ UNCHANGED <<pure_vars, h_enqueued, err_env, exit_code,
                   session_vars, intent_vars, reader_vars, ctrl_vars, resync_pending,
                   chan, workers, writer, stdout, ui_tasks, ui_pc>>

\* a run() that joins the writer thread whether it has finished or not
MainShutdownJoinsWriter ==
    /\ main_pc = "joining"
    /\ writer # "running"
    /\ main_pc' = "done"
    /\ exit_code' = Some(exit_status(run_returns(reader_result, writer)))
    /\ UNCHANGED <<pure_vars, h_enqueued, err_env,
                   session_vars, intent_vars, reader_vars, ctrl_vars, resync_pending,
                   chan, workers, writer, stdout, ui_tasks, ui_pc>>

\* the joins of the threads that have finished, the warnings for those that
\* have not, and the return to main(): the process ends
MainShutdown ==
    /\ main_pc = "joining"
    /\ main_pc' = "done"
    /\ exit_code' = Some(exit_status(run_returns(reader_result, writer)))
    /\ UNCHANGED <<pure_vars, h_enqueued, err_env,
                   session_vars, intent_vars, reader_vars, ctrl_vars, resync_pending,
                   chan, workers, writer, stdout, ui_tasks, ui_pc>>

(***************************************************************************)
(* Reader thread (lib.rs 105-256, protocol.rs 96-113)                      *)
(***************************************************************************)
\* a render or patch envelope: its closure is posted to the event loop.  The
\* closure owns the envelope's fields and nothing reads them before it runs,
\* so they are drawn when it runs.
ReaderPost(kind) ==
    /\ reader_pc = "read"
    /\ frames_read < MaxInbound
    /\ frames_read' = frames_read + 1
    /\ ui_tasks' = Append(ui_tasks, kind)
    /\ UNCHANGED <<pure_vars, h_enqueued,
                   session_vars, intent_vars, ctrl_vars, resync_pending, chan, workers,
                   writer, stdout, main_pc, exit_code, err_env, reader_pc, reader_result, reader_cause, ui_pc>>

\* an error envelope: handled on the reader thread itself
\* the Error arm of the closure given to reader_loop (lib.rs 224-240): sid,
\* rev and message are printed, the code decides on the resync
OnError(code) ==
    /\ reader_pc = "read"
    /\ frames_read < MaxInbound
    /\ frames_read' = frames_read + 1
    /\ IF should_resync_for_error(code)
       THEN LET cas == request_resync(resync_pending)
            IN  /\ resync_pending' = cas.pending
                /\ reader_pc' = IF cas.enqueue THEN "enqueue" ELSE "read"
       ELSE UNCHANGED <<resync_pending, reader_pc>>
    /\ UNCHANGED <<pure_vars, h_enqueued,
                   session_vars, intent_vars, ctrl_vars, chan, workers, writer, stdout,
                   main_pc, exit_code, reader_result, reader_cause, ui_tasks, ui_pc>>

\* an Error envelope is read and handled
ReaderError(code) == OnError(code) /\ UNCHANGED err_env

\* an Error envelope is read and handled, and kept for the record
ReaderErrorEnvelope(sid, rev, code) ==
    /\ OnError(code)
    /\ err_env' = Some([sid |-> sid, rev |-> rev, code |-> code])

\* a reader thread that resets the session state itself, in place of the
\* rest of request_resync
ReaderEnqueueResets ==
    /\ reader_pc = "enqueue"
    /\ reader_pc' = "read"
    /\ ui_model_state' = reset_for_resync(ui_model_state)
    /\ UNCHANGED <<pure_vars, h_enqueued, ev, prev_applied, h_expected, h_ack_max, h_screen,
                   ui_props,
                   intent_vars, ctrl_vars, resync_pending, chan, workers, writer, stdout,
                   main_pc, exit_code, err_env, reader_result, reader_cause, frames_read,
                   ui_tasks, ui_pc>>

\* the rest of request_resync on the reader thread
ReaderEnqueue ==
    /\ reader_pc = "enqueue"
    /\ LET sent == enqueue_control_envelope(chan, workers, Connected,
                                            ready_envelope(LocalSid))
       IN  /\ chan' = sent.chan
           /\ h_enqueued' = Accepted(h_enqueued, chan, sent.chan)
           /\ workers' = sent.workers
           /\ ctrl_lost' = ctrl_lost + sent.lost
           /\ ctrl_spawned' = ctrl_spawned + (sent.workers - workers)
    /\ ctrl_handed' = ctrl_handed + 1
    /\ h_resyncs' = h_resyncs + 1
    /\ reader_pc' = "read"
    /\ UNCHANGED <<pure_vars,
                   session_vars, intent_vars, resync_pending, writer, stdout, main_pc, exit_code, err_env,
                   reader_result, reader_cause, frames_read, ui_tasks, ui_pc>>

\* what read_frame and decode_elixir_envelope can make of a frame that ends
\* reader_loop: the stream ended before or inside it (UnexpectedEof), its
\* header announced more than ELIXIR_TO_UI_CAP (InvalidData from read_frame),
\* or its payload is not an envelope (InvalidData from the decoder)
EndingFrames == {"UnexpectedEof", "too_large", "undecodable"}

\* a reader_loop that returns the error also at the end of the stream
ReaderLoopFailsOnEof(frame) == "err"

\* the match of reader_loop on a frame of EndingFrames, protocol.rs 104-111
reader_loop_returns(frame) == IF frame = "UnexpectedEof" THEN "ok" ELSE "err"

\* reader_loop returns (end of stream, or a frame it cannot take); the quit
\* of the event loop is posted
ReaderEnd(frame) ==
    /\ reader_pc = "read"
    /\ reader_result' = reader_loop_returns(frame)
    /\ reader_cause' = frame
    /\ reader_pc' = "done"
    /\ ui_tasks' = Append(ui_tasks, "quit")
    /\ UNCHANGED <<pure_vars, h_enqueued,
                   session_vars, intent_vars, ctrl_vars, resync_pending, chan, workers,
                   writer, stdout, main_pc, exit_code, err_env, frames_read, ui_pc>>

(***************************************************************************)
(* UI thread: the event loop runs the queued closures in order             *)
(***************************************************************************)
UiCanRun(kind) ==
    /\ main_pc = "loop"
    /\ ui_pc = "idle"
    /\ ui_tasks # <<>>
    /\ Head(ui_tasks) = kind

\* the part of a task after the state update: the store of false, or
\* request_resync up to its compare_exchange
UiFinish(task) ==
    IF task.outcome = "applied"
    THEN /\ resync_pending' = (IF task.store_false THEN FALSE ELSE resync_pending)
         /\ ui_pc' = "idle"
    ELSE LET cas == request_resync(resync_pending)
         IN  /\ resync_pending' = cas.pending
             /\ ui_pc' = IF cas.enqueue THEN "enqueue" ELSE "idle"

\* history record of a task: its kind, how it ended, whether its envelope
\* carried the local sid, whether the state had a last_rev, and whether the
\* envelope's rev was that last_rev + 1 modulo 2^64
Seen(kind, outcome, sid, rev) ==
    [kind |-> kind, outcome |-> outcome, local |-> (sid = LocalSid),
     had_rev |-> (ui_model_state.last_rev # None),
     is_next |-> IF ui_model_state.last_rev = None THEN FALSE
                 ELSE rev = (Unwrap(ui_model_state.last_rev) + 1) % U64Mod]

\* the larger of two optional acks, None counting as below every ack
LargerAck(a, b) ==
    IF a = None THEN b
    ELSE IF b = None THEN a
    ELSE IF Unwrap(b) > Unwrap(a) THEN b ELSE a

UiRender(sid, rev, vm, screen_render) ==
    /\ UiCanRun("render")
    /\ ui_tasks' = Tail(ui_tasks)
    /\ \E task \in {render_task(ui_model_state, sid, rev, vm, screen_render)} :
           /\ ui_model_state' = task.state
           /\ ev' = Seen("render", task.outcome, sid, rev)
           /\ prev_applied' = IF task.outcome = "applied" THEN Some(rev) ELSE prev_applied
           /\ h_expected' = IF task.outcome = "applied" THEN vm ELSE EmptyObject
           /\ h_resyncs' = IF task.outcome = "applied" THEN 0 ELSE h_resyncs
           /\ h_ack_max' = IF task.outcome = "applied" THEN h_ack_max ELSE None
           /\ h_screen' = IF task.outcome = "applied" THEN Some(screen_render.val) ELSE None
           /\ ui_props' = render_pushes(ui_props, ui_model_state, sid, rev, vm)
           /\ UiFinish(task)
    /\ UNCHANGED <<pure_vars, h_enqueued,
                   intent_vars, reader_vars, ctrl_handed, ctrl_lost, ctrl_spawned, chan,
                   workers, writer, stdout, main_pc, exit_code, err_env>>

UiPatch(sid, rev, ack, ops, adapter) ==
    /\ UiCanRun("patch")
    /\ ui_tasks' = Tail(ui_tasks)
    /\ \E task \in {patch_task(ui_model_state, sid, rev, ack, ops, adapter)} :
           /\ ui_model_state' = task.state
           /\ ev' = Seen("patch", task.outcome, sid, rev)
           /\ prev_applied' = IF task.outcome = "applied" THEN Some(rev) ELSE prev_applied
           /\ h_expected' = IF task.outcome = "applied"
                            THEN apply_vm_patch_ops(h_expected, ops).val
                            ELSE EmptyObject
           /\ h_ack_max' = IF task.outcome = "applied"
                           THEN LargerAck(h_ack_max, ack)
                           ELSE None
           /\ h_screen' = IF task.outcome # "applied" THEN None
                          ELSE IF patch_changes_screen(ops) THEN Some(adapter.val)
                          ELSE h_screen
           /\ ui_props' = patch_pushes(ui_props, ui_model_state, sid, rev, ops)
           /\ UiFinish(task)
    /\ UNCHANGED <<pure_vars, h_enqueued,
                   intent_vars, reader_vars, ctrl_vars, chan, workers, writer, stdout,
                   main_pc, exit_code, err_env>>

\* the rest of request_resync on the UI thread
UiEnqueue ==
    /\ ui_pc = "enqueue"
    /\ LET sent == enqueue_control_envelope(chan, workers, Connected,
                                            ready_envelope(LocalSid))
       IN  /\ chan' = sent.chan
           /\ h_enqueued' = Accepted(h_enqueued, chan, sent.chan)
           /\ workers' = sent.workers
           /\ ctrl_lost' = ctrl_lost + sent.lost
           /\ ctrl_spawned' = ctrl_spawned + (sent.workers - workers)
    /\ ctrl_handed' = ctrl_handed + 1
    /\ h_resyncs' = h_resyncs + 1
    /\ ui_pc' = "idle"
    /\ UNCHANGED <<pure_vars,
                   session_vars, intent_vars, reader_vars, resync_pending, writer, stdout,
                   main_pc, exit_code, err_env, ui_tasks>>

\* slint::quit_event_loop(): ui.run() returns.  The callbacks run on the
\* thread of the event loop, so none is under way when the loop ends.
UiQuit ==
    /\ UiCanRun("quit")
    /\ \A c \in CallbackThreads : cb[c].t = "none"
    /\ ui_tasks' = Tail(ui_tasks)
    /\ main_pc' = "exited"
    /\ UNCHANGED <<pure_vars, h_enqueued, exit_code, err_env,
                   session_vars, intent_vars, reader_vars, ctrl_vars, resync_pending,
                   chan, workers, writer, stdout, ui_pc>>

(***************************************************************************)
(* Toolkit callbacks (lib.rs 289-399): a callback with a non-empty name    *)
(* or route reaches send_intent.                                           *)
(***************************************************************************)
\* the fetch_add on next_intent_id and the envelope built from it
CallbackBuild(c, big) ==
    /\ main_pc = "loop"
    /\ cb[c].t = "none"
    /\ next_intent_id <= MaxIntents
    /\ cb' = [cb EXCEPT ![c] = intent_envelope(LocalSid, next_intent_id, big)]
    /\ next_intent_id' = wrapping_add(next_intent_id, 1)
    /\ h_ids' = Append(h_ids, next_intent_id)
    /\ UNCHANGED <<pure_vars, h_enqueued, h_lost, h_empty,
                   session_vars, reader_vars, ctrl_vars, resync_pending,
                   dropped_intent_count, chan, workers, writer, stdout, main_pc, exit_code, err_env,
                   ui_tasks, ui_pc>>

\* the closure's early return on an empty intent name or route name
\* (lib.rs 302-304, 327-329, 352-354): send_intent is not called
CallbackEmpty(c) ==
    /\ main_pc = "loop"
    /\ cb[c].t = "none"
    /\ h_empty < MaxEmpty
    /\ h_empty' = h_empty + 1
    /\ UNCHANGED <<pure_vars, h_enqueued, h_ids, h_lost, next_intent_id, dropped_intent_count, cb,
                   session_vars, reader_vars, ctrl_vars, resync_pending,
                   chan, workers, writer, stdout, main_pc, exit_code, err_env, ui_tasks, ui_pc>>

\* the history of intents that were not enqueued, after a send_intent that
\* took the queue from `before` to `after`
Lost(history, before, after, id) ==
    IF after # before THEN history
    ELSE Append(history, [id |-> id, why |-> IF Connected THEN "full" ELSE "disconnected"])

\* a send_intent that hands its id back when the envelope was not enqueued
CallbackSendReturnsId(c) ==
    /\ cb[c].t = "intent"
    /\ LET sent == send_intent(chan, dropped_intent_count, Connected, cb[c])
       IN  /\ chan' = sent.chan
           /\ h_enqueued' = Accepted(h_enqueued, chan, sent.chan)
           /\ dropped_intent_count' = sent.dropped
           /\ next_intent_id' = IF sent.chan = chan THEN cb[c].id ELSE next_intent_id
           /\ h_lost' = Lost(h_lost, chan, sent.chan, cb[c].id)
    /\ cb' = [cb EXCEPT ![c] = NoIntent]
    /\ UNCHANGED <<pure_vars, h_ids, h_empty,
                   session_vars, reader_vars, ctrl_vars, resync_pending,
                   workers, writer, stdout, main_pc, exit_code, err_env, ui_tasks, ui_pc>>

\* the try_send and what follows it
CallbackSend(c) ==
    /\ cb[c].t = "intent"
    /\ LET sent == send_intent(chan, dropped_intent_count, Connected, cb[c])
       IN  /\ chan' = sent.chan
           /\ h_enqueued' = Accepted(h_enqueued, chan, sent.chan)
           /\ dropped_intent_count' = sent.dropped
           /\ h_lost' = Lost(h_lost, chan, sent.chan, cb[c].id)
    /\ cb' = [cb EXCEPT ![c] = NoIntent]
    /\ UNCHANGED <<pure_vars, h_ids, h_empty,
                   session_vars, reader_vars, ctrl_vars, resync_pending, next_intent_id,
                   workers, writer, stdout, main_pc, exit_code, err_env, ui_tasks, ui_pc>>

(***************************************************************************)
(* Control-envelope worker (lib.rs 568-572): tx.send returns               *)
(***************************************************************************)
\* with the receiver gone tx.send fails and the envelope is given up
WorkerSend ==
    /\ Alive
    /\ workers > 0
    /\ IF Connected
       THEN /\ Len(chan) < QueueCap
            /\ chan' = Append(chan, ready_envelope(LocalSid))
            /\ h_enqueued' = Append(h_enqueued, ready_envelope(LocalSid))
            /\ UNCHANGED ctrl_lost
       ELSE /\ ctrl_lost' = ctrl_lost + 1
            /\ UNCHANGED <<chan, h_enqueued>>
    /\ workers' = workers - 1
    /\ UNCHANGED <<pure_vars,
                   session_vars, intent_vars, reader_vars, resync_pending, writer, stdout,
                   main_pc, exit_code, err_env, ui_tasks, ui_pc, ctrl_handed, ctrl_spawned, h_resyncs>>

(***************************************************************************)
(* Writer thread (protocol.rs 83-94, 140-154)                              *)
(***************************************************************************)
\* a writer that takes the newest buffered envelope instead of the oldest
WriterWriteNewestFirst ==
    /\ Alive
    /\ writer = "running"
    /\ chan # <<>>
    /\ IF chan[Len(chan)].big
       THEN /\ writer' = "err"
            /\ chan' = <<>>
            /\ UNCHANGED stdout
       ELSE /\ stdout' = Append(stdout, chan[Len(chan)])
            /\ chan' = SubSeq(chan, 1, Len(chan) - 1)
            /\ UNCHANGED writer
    /\ UNCHANGED <<pure_vars, h_enqueued,
                   session_vars, intent_vars, reader_vars, ctrl_vars, resync_pending,
                   workers, main_pc, exit_code, err_env, ui_tasks, ui_pc>>

\* a writer that skips an envelope write_frame refuses and goes on
WriterWriteSkipsOversized ==
    /\ Alive
    /\ writer = "running"
    /\ chan # <<>>
    /\ IF Head(chan).big
       THEN /\ chan' = Tail(chan)
            /\ UNCHANGED <<writer, stdout>>
       ELSE /\ stdout' = Append(stdout, Head(chan))
            /\ chan' = Tail(chan)
            /\ UNCHANGED writer
    /\ UNCHANGED <<pure_vars, h_enqueued,
                   session_vars, intent_vars, reader_vars, ctrl_vars, resync_pending,
                   workers, main_pc, exit_code, err_env, ui_tasks, ui_pc>>

\* one turn of the loop: receive, encode, write_frame, flush.  write_frame
\* refuses a payload above UI_TO_ELIXIR_CAP; writer_loop returns the error
\* and the receiver is dropped with what it buffers.
WriterWrite ==
    /\ Alive
    /\ writer = "running"
    /\ chan # <<>>
    /\ IF Head(chan).big
       THEN /\ writer' = "err"
            /\ chan' = <<>>
            /\ UNCHANGED stdout
       ELSE /\ stdout' = Append(stdout, Head(chan))
            /\ chan' = Tail(chan)
            /\ UNCHANGED writer
    /\ UNCHANGED <<pure_vars, h_enqueued,
                   session_vars, intent_vars, reader_vars, ctrl_vars, resync_pending,
                   workers, main_pc, exit_code, err_env, ui_tasks, ui_pc>>

\* every SyncSender is dropped: the loop over rx ends and writer_loop returns Ok
SendersGone ==
    /\ main_pc = "joining"
    /\ reader_pc = "done"
    /\ workers = 0
    /\ ui_pc = "idle"
    /\ \A c \in CallbackThreads : cb[c].t = "none"

WriterExit ==
    /\ writer = "running"
    /\ chan = <<>>
    /\ SendersGone
    /\ writer' = "ok"
    /\ UNCHANGED <<pure_vars, h_enqueued,
                   session_vars, intent_vars, reader_vars, ctrl_vars, resync_pending,
                   chan, workers, stdout, main_pc, exit_code, err_env, ui_tasks, ui_pc>>

Next ==
    \/ MainSendReady
    \/ MainDrop
    \/ MainShutdown
    \/ \E kind \in {"render", "patch"} : ReaderPost(kind)
    \/ \E code \in ErrorCodes : ReaderError(code)
    \/ ReaderEnqueue
    \/ \E frame \in EndingFrames : ReaderEnd(frame)
    \/ \E sid \in Sids, rev \in U64, i \in 1 .. Len(RenderVms),
          screen_render \in ScreenRenderResults :
          UiRender(sid, rev, RenderVms[i], screen_render)
    \/ \E sid \in Sids, rev \in U64, ack \in Acks, i \in 1 .. Len(PatchOps),
          adapter \in ScreenRenderResults :
          UiPatch(sid, rev, ack, PatchOps[i], adapter)
    \/ UiEnqueue
    \/ UiQuit
    \/ WorkerSend
    \/ WriterWrite
    \/ WriterExit

Spec == Init /\ [][Next]_vars

\* The host with a controller that sends Error envelopes only, and a user
\* who fires callbacks.
NextOutbound ==
    \/ MainSendReady
    \/ MainDrop
    \/ MainShutdown
    \/ \E code \in ErrorCodes : ReaderError(code)
    \/ ReaderEnqueue
    \/ \E frame \in EndingFrames : ReaderEnd(frame)
    \/ UiQuit
    \/ \E c \in CallbackThreads, big \in BOOLEAN : CallbackBuild(c, big)
    \/ \E c \in CallbackThreads : CallbackSend(c)
    \/ WorkerSend
    \/ WriterWrite
    \/ WriterExit

SpecOutbound == Init /\ [][NextOutbound]_vars

(***************************************************************************)
(* The patch applier on its own: a document is drawn, and the operations   *)
(* of a patch are applied to it one after the other as the loop of         *)
(* apply_vm_patch_ops does (lib.rs 600-691).                               *)
(***************************************************************************)
K_a == <<"a">>
K_b == <<"b">>
K_e == <<"e">>
K_slash == <<"a", "/", "b">>
K_tilde == <<"~", "1">>
T_0 == <<"0">>
T_1 == <<"1">>
T_2 == <<"2">>
T_3 == <<"3">>
T_01 == <<"0", "1">>
T_plus1 == <<"+", "1">>
T_plus2 == <<"+", "2">>
T_x == <<"x">>

\* {"n": [{"b": 1}, 2], "e": [], "a": {"b": 3}}
DocLists ==
    JObj((K_n :> JArr(<<JObj(K_b :> JNum(1)), JNum(2)>>))
         @@ (K_e :> JArr(<<>>))
         @@ (K_a :> JObj(K_b :> JNum(3))))
\* {"a/b": 1, "~1": 2}
DocEscapes == JObj((K_slash :> JNum(1)) @@ (K_tilde :> JNum(2)))
\* [1, 2]
DocArray == JArr(<<JNum(1), JNum(2)>>)
\* the documents the applier is started on
Docs == {EmptyObject, DocLists, DocEscapes, DocArray, JStr("s")}

\* the token lists the paths of the operations are written from
PatchTokenLists ==
    { <<>>, <<K_n>>, <<K_e>>, <<K_a>>, <<K_missing>>,
      <<K_n, T_0>>, <<K_n, T_1>>, <<K_n, T_2>>, <<K_n, T_3>>, <<K_n, T_01>>,
      <<K_n, T_plus1>>, <<K_n, T_plus2>>, <<K_n, T_x>>,
      <<K_e, T_0>>, <<K_e, T_1>>,
      <<K_a, K_b>>, <<K_a, K_missing>>, <<K_a, K_b, K_b>>,
      <<K_missing, K_b>>, <<K_missing, K_a, K_b>>,
      <<K_n, T_0, K_b>>, <<K_n, T_0, K_missing>>, <<K_n, T_2, K_b>>, <<K_n, T_x, K_b>>,
      <<T_0>>, <<T_2>> }

\* paths that need the escapes, or are not pointers:
\* "/a~1b", "/~01", "/a~0b", "/a~", "/~2", "n", "/", "/a//b", "/a~/b"
EscapedPaths ==
    { <<"/", "a", "~", "1", "b">>, <<"/", "~", "0", "1">>, <<"/", "a", "~", "0", "b">>,
      <<"/", "a", "~">>, <<"/", "~", "2">>, <<"n">>, <<"/">>,
      <<"/", "a", "/", "/", "b">>, <<"/", "a", "~", "/", "b">> }

PatchPaths == {Path(tokens) : tokens \in PatchTokenLists} \cup EscapedPaths

PatchValues == {JNum(7), JArr(<<>>)}

\* the document is drawn; no operation has been applied to it
InitApplier ==
    /\ HostInit
    /\ FrameIdle
    /\ ScreenIdle
    /\ BackpressureIdle
    /\ patched \in Docs
    /\ patched_from = patched
    /\ patch_op = <<>>
    /\ patch_ok = TRUE
    /\ patch_tokens = Ok(<<>>)
    /\ patch_count = 0
    /\ patch_list = <<>>
    /\ patch_pc = "idle"

\* one turn of the loop of apply_vm_patch_ops; after an error the loop has
\* returned and the document stays as the failed operation left it
ApplyPatchOp(op) ==
    /\ patch_count < MaxPatchOps
    /\ patch_ok
    /\ \E applied \in {ApplyOp(patched, op)} :
           /\ patched' = applied.val
           /\ patch_ok' = applied.ok
    /\ patched_from' = patched
    /\ patch_op' = op
    /\ patch_tokens' = parse_pointer(op[2])
    /\ patch_count' = patch_count + 1
    /\ UNCHANGED <<answered, bp_vars, frame_vars, screen_vars, patch_list, patch_pc,
                   session_vars, intent_vars, reader_vars, ctrl_vars, resync_pending,
                   chan, workers, writer, stdout, main_pc, exit_code, err_env, ui_tasks, ui_pc, h_enqueued>>

ApplyReplace(path, value) == ApplyPatchOp(<<"replace", path, value>>)
ApplyAdd(path, value) == ApplyPatchOp(<<"add", path, value>>)
ApplyRemove(path) == ApplyPatchOp(<<"remove", path>>)

NextApplier ==
    \/ \E path \in PatchPaths, value \in PatchValues : ApplyReplace(path, value)
    \/ \E path \in PatchPaths, value \in PatchValues : ApplyAdd(path, value)
    \/ \E path \in PatchPaths : ApplyRemove(path)

SpecApplier == InitApplier /\ [][NextApplier]_vars

(***************************************************************************)
(* Framing on its own (protocol.rs 123-154): a payload and a max_payload   *)
(* are drawn, write_frame writes to an empty Vec<u8>, and read_frame reads *)
(* from a cursor over that Vec, as the test write_then_read_round_trip     *)
(* does.  Bytes are the numbers 0 .. 255.                                  *)
(***************************************************************************)
UI_TO_ELIXIR_CAP == 65536
ELIXIR_TO_UI_CAP == 1048576
\* u32::try_from(n) fails for n above u32::MAX = 65536 * 65536 - 1
ExceedsU32(n) == n \div 65536 >= 65536

\* the length with its least significant byte first
ToLeBytes(len) ==
    <<len % 256, (len \div 256) % 256, (len \div 65536) % 256, (len \div 16777216) % 256>>

\* u32::to_be_bytes
to_be_bytes(len) ==
    <<(len \div 16777216) % 256, (len \div 65536) % 256, (len \div 256) % 256, len % 256>>

\* u32::from_be_bytes
from_be_bytes(buf) == buf[1] * 16777216 + buf[2] * 65536 + buf[3] * 256 + buf[4]

\* write_frame on a writer that takes every byte: what the writer holds
\* afterwards, Err with the writer untouched when the payload is refused
write_frame(written, payload, max_payload) ==
    IF Len(payload) > max_payload THEN Err(written)
    ELSE IF ExceedsU32(Len(payload)) THEN Err(written)
    ELSE Ok(written \o to_be_bytes(Len(payload)) \o payload)

\* the second read_exact of read_frame, for a header that announced `len`
ReadPayload(bytes, len, max_payload) ==
    IF len > max_payload THEN Err(<<>>)
    ELSE IF Len(bytes) - 4 < len THEN Err(<<>>)
    ELSE Ok(SubSeq(bytes, 5, 4 + len))

\* the io::ErrorKind of write_frame's error, "none" when it returns Ok
write_frame_kind(payload, max_payload) ==
    IF Len(payload) > max_payload THEN "InvalidData"
    ELSE IF ExceedsU32(Len(payload)) THEN "InvalidData"
    ELSE "none"

\* a read_frame that reads the payload before it tests the length
ReadKindEofFirst(bytes, len, max_payload) ==
    IF Len(bytes) - 4 < len THEN "UnexpectedEof"
    ELSE IF len > max_payload THEN "InvalidData"
    ELSE "none"

\* the io::ErrorKind of read_frame's error, "none" when it returns Ok: the
\* first read_exact fails with UnexpectedEof on fewer than 4 bytes, the
\* length test with InvalidData, the second read_exact with UnexpectedEof
ReadPayloadKind(bytes, len, max_payload) ==
    IF len > max_payload THEN "InvalidData"
    ELSE IF Len(bytes) - 4 < len THEN "UnexpectedEof"
    ELSE "none"

read_frame_kind(bytes, max_payload) ==
    IF Len(bytes) < 4 THEN "UnexpectedEof"
    ELSE ReadPayloadKind(bytes, from_be_bytes(SubSeq(bytes, 1, 4)), max_payload)

\* the numbers of bytes read_frame can have taken from the reader when it
\* returns.  A read_exact that meets the end of the stream leaves it
\* unspecified how much it took: anything from where it began to the end.
ReadPayloadConsumed(bytes, len, max_payload) ==
    IF len > max_payload THEN {4}
    ELSE IF Len(bytes) - 4 < len THEN 4 .. Len(bytes)
    ELSE {4 + len}

read_frame_consumed(bytes, max_payload) ==
    IF Len(bytes) < 4 THEN 0 .. Len(bytes)
    ELSE ReadPayloadConsumed(bytes, from_be_bytes(SubSeq(bytes, 1, 4)), max_payload)

\* read_frame on a reader that holds `bytes`: the payload, or an error
\* (UnexpectedEof or InvalidData)
read_frame(bytes, max_payload) ==
    IF Len(bytes) < 4 THEN Err(<<>>)
    ELSE ReadPayload(bytes, from_be_bytes(SubSeq(bytes, 1, 4)), max_payload)

FrameBytes == {0, 255}
RECURSIVE SeqsUpTo(_, _)
\* the sequences over `set` of length up to n
SeqsUpTo(set, n) ==
    IF n = 0 THEN {<<>>}
    ELSE SeqsUpTo(set, n - 1)
         \cup {Append(q, x) : q \in {r \in SeqsUpTo(set, n - 1) : Len(r) = n - 1}, x \in set}

\* a payload of n bytes that differ from their neighbours
LongPayload(n) == [i \in 1 .. n |-> (i * 7) % 256]

\* b"abc"
PayloadAbc == <<97, 98, 99>>

\* payloads around the lengths at which a header byte or the cap is passed
Payloads ==
    SeqsUpTo(FrameBytes, MaxShortPayload)
    \cup {PayloadAbc}
    \cup {LongPayload(n) : n \in {256, 258, UI_TO_ELIXIR_CAP, UI_TO_ELIXIR_CAP + 1}}

\* max_payload: the two caps the program passes, and small ones
MaxPayloads == {0, 2, 3, 258, UI_TO_ELIXIR_CAP, ELIXIR_TO_UI_CAP}

InitFraming ==
    /\ HostInit
    /\ PatchIdle
    /\ ScreenIdle
    /\ BackpressureIdle
    /\ frame_payload \in Payloads
    /\ frame_max \in MaxPayloads
    /\ frame_pc = "drawn"
    /\ frame_out = <<>>
    /\ frame_written = FALSE
    /\ frame_back = Err(<<>>)
    /\ frame_in = <<>>
    /\ frame_kind = "none"
    /\ frame_pos = 0
    /\ frame_wkind = "none"

WriteFrame ==
    /\ frame_pc = "drawn"
    /\ \E result \in {write_frame(frame_out, frame_payload, frame_max)} :
           /\ frame_out' = result.val
           /\ frame_written' = result.ok
    /\ frame_wkind' = write_frame_kind(frame_payload, frame_max)
    /\ frame_pc' = "written"
    /\ UNCHANGED <<frame_payload, frame_max, frame_back, frame_in, frame_kind, frame_pos,
                   patch_vars, screen_vars, bp_vars, answered,
                   session_vars, intent_vars, reader_vars, ctrl_vars, resync_pending,
                   chan, workers, writer, stdout, main_pc, exit_code, err_env, ui_tasks, ui_pc, h_enqueued>>

\* read_frame on a cursor over `stream`
ReadStream(stream) ==
    /\ frame_back' = read_frame(stream, frame_max)
    /\ frame_in' = stream
    /\ frame_kind' = read_frame_kind(stream, frame_max)
    /\ frame_pos' \in read_frame_consumed(stream, frame_max)
    /\ UNCHANGED <<frame_payload, frame_max, frame_out, frame_written, frame_wkind,
                   patch_vars, screen_vars, bp_vars, answered,
                   session_vars, intent_vars, reader_vars, ctrl_vars, resync_pending,
                   chan, workers, writer, stdout, main_pc, exit_code, err_env, ui_tasks, ui_pc, h_enqueued>>

\* the reader is given what write_frame wrote
ReadFrame ==
    /\ frame_pc = "written"
    /\ frame_pc' = "read"
    /\ ReadStream(frame_out)

\* the reader is given a stream that ends early: the first n bytes written
ReadTruncated(n) ==
    /\ frame_pc = "written"
    /\ n < Len(frame_out)
    /\ frame_pc' = "read_cut"
    /\ ReadStream(SubSeq(frame_out, 1, n))

\* the reader is given a header that announces `len` bytes, and `body` after it
ReadForeign(len, body) ==
    /\ frame_pc = "written"
    /\ frame_pc' = "read_foreign"
    /\ ReadStream(to_be_bytes(len) \o body)

\* where a stream is cut: inside the header, after it, inside the payload
CutPoints == {0, 1, 3, 4, 5, 6}
\* lengths a foreign header announces: within max, just above it, far above it
ForeignLens == {0, 2, 3, 4, 259, UI_TO_ELIXIR_CAP + 1, ELIXIR_TO_UI_CAP + 1}
\* the bytes that follow a foreign header
ForeignBodies == {<<>>, <<97, 98>>, <<97, 98, 99>>}

NextFraming ==
    \/ WriteFrame
    \/ ReadFrame
    \/ \E n \in CutPoints : ReadTruncated(n)
    \/ \E len \in ForeignLens, body \in ForeignBodies : ReadForeign(len, body)

SpecFraming == InitFraming /\ [][NextFraming]_vars

(***************************************************************************)
(* Properties of the session (checked under Spec)                          *)
(***************************************************************************)
\* a step of the UI thread that runs a render or patch task
UiTaskStep ==
    /\ ui_tasks # <<>>
    /\ Head(ui_tasks) \in {"render", "patch"}
    /\ ui_tasks' = Tail(ui_tasks)

\* the revision the guards accept in `state`, if there is one
NextRev(state) == wrapping_add(Unwrap(state.last_rev), 1)

\* C1 (as stated): each revision applied to the VM equals the revision applied
\* before it plus 1, over the whole run.
C1_AppliedRevsStepByOne ==
    [][(UiTaskStep /\ ev'.outcome = "applied" /\ prev_applied # None)
          => prev_applied' = Some(wrapping_add(Unwrap(prev_applied), 1))]_vars

\* C1 (amended): an envelope is applied in a state whose last_rev is r only if
\* its rev is r + 1 modulo 2^64, and last_rev becomes that rev; in a state
\* whose last_rev is absent only a render is applied, with whatever rev it has.
C1_AppliedRevFollowsLastRev ==
    [][(UiTaskStep /\ ev'.outcome = "applied")
          => /\ ui_model_state'.last_rev = prev_applied'
             /\ IF ui_model_state.last_rev # None
                THEN prev_applied' = Some(NextRev(ui_model_state))
                ELSE ev'.kind = "render"]_vars

\* C1 witness: a patch was applied on top of an applied render
C1_PatchAppliedAfterRender ==
    /\ ev.kind = "patch" /\ ev.outcome = "applied"
    /\ ui_model_state.last_rev # None

\* C2: a render with the local sid passes the revision guard iff last_rev is
\* absent or its rev is last_rev + 1 modulo 2^64.
C2_RenderRevGuard ==
    (ev.kind = "render" /\ ev.local)
       => ((ev.outcome # "rev_rejected") <=> (~ev.had_rev \/ ev.is_next))

\* C2 witness: a render was accepted at the wrap, with rev 0 on last_rev
\* 2^64 - 1
C2_RenderAcceptedAtWrap ==
    /\ ev.kind = "render" /\ ev.outcome = "applied"
    /\ ev.had_rev
    /\ ui_model_state.last_rev = Some(0)

\* C3: a patch with the local sid passes the revision guard iff last_rev is
\* present and its rev is last_rev + 1 modulo 2^64; no patch is applied in a
\* state without last_rev.
C3_PatchRevGuard ==
    (ev.kind = "patch" /\ ev.local)
       => /\ (ev.outcome # "rev_rejected") <=> (ev.had_rev /\ ev.is_next)
          /\ ~ev.had_rev => ev.outcome # "applied"

\* C3 witness: a patch that arrived before any render was rejected
C3_PatchBeforeRender ==
    /\ ev.kind = "patch" /\ ev.outcome = "rev_rejected"
    /\ prev_applied = None

\* C4: whenever last_rev is present, vm is the vm of the last applied render
\* with the ops of the patches applied since, in order.
C4_VmReflectsApplied ==
    ui_model_state.last_rev # None => ui_model_state.vm = h_expected

\* C4 witness: a patch was applied and changed the vm of the render
C4_PatchChangedVm ==
    /\ ev.kind = "patch" /\ ev.outcome = "applied"
    /\ ui_model_state.vm \notin {RenderVms[i] : i \in 1 .. Len(RenderVms)}

\* C5: after a task whose envelope failed the revision guard or failed to
\* apply, the session state is the default one and resync_pending is set.
C5_FailureResets ==
    ev.outcome \in {"rev_rejected", "apply_failed"}
       => /\ ui_model_state = UiModelStateDefault
          /\ resync_pending

\* C5 witness: a patch failed to apply after a render had been applied
C5_PatchFailedToApply ==
    /\ ev.kind = "patch" /\ ev.outcome = "apply_failed"
    /\ prev_applied # None

\* C6: a render or patch with a foreign sid is not applied, whatever its rev:
\* the task leaves the default state and resync_pending set, and the flag
\* stays set until a render is applied.
C6_SidMismatchResets ==
    (ev.kind \in {"render", "patch"} /\ ~ev.local)
       => /\ ev.outcome = "sid_mismatch"
          /\ ui_model_state = UiModelStateDefault
          /\ resync_pending

\* C6 witness: a patch with a foreign sid arrived in a session that had applied
\* a render
C6_ForeignPatch ==
    /\ ev.kind = "patch" /\ ev.outcome = "sid_mismatch"
    /\ prev_applied # None
    /\ resync_pending

\* C7: no second resync Ready is handed to the outbound queue until a render
\* has been applied.
C7_OneResyncInFlight == h_resyncs <= 1

\* C8: resync_pending goes from true to false only in a render task that
\* applied its envelope.
C8_ClearedOnlyByRender ==
    [][(resync_pending /\ ~resync_pending')
          => /\ UiTaskStep
             /\ Head(ui_tasks) = "render"
             /\ ev'.kind = "render" /\ ev'.outcome = "applied"]_vars

\* C8 witness: a render was applied after a resync had been requested, and the
\* flag is clear
C8_ClearedAfterResync ==
    /\ ev.kind = "render" /\ ev.outcome = "applied"
    /\ ~resync_pending
    /\ ctrl_handed >= 2

(***************************************************************************)
(* Properties of the outbound path (checked under SpecOutbound, and under  *)
(* FairOutbound for what must eventually happen)                           *)
(***************************************************************************)
\* The threads that are ready to run do run: the main thread's first send, the
\* reader inside request_resync, a worker whose send can complete, and the
\* writer with an envelope to write.
FairOutbound ==
    /\ SpecOutbound
    /\ WF_vars(MainSendReady)
    /\ WF_vars(ReaderEnqueue)
    /\ WF_vars(WorkerSend)
    /\ WF_vars(WriterWrite)

\* the Ready envelopes written to stdout
ReadyWritten == Cardinality({i \in DOMAIN stdout : stdout[i].t = "ready"})

\* C9: a Ready is given up only once the writer has returned (never because
\* the queue is full), and as long as the writer does not fail and the
\* process runs every Ready handed to a send (the n-th, for every n) is
\* eventually written to stdout.
C9_ControlEnvelopeWritten ==
    /\ [](ctrl_lost > 0 => writer = "err")
    /\ \A n \in 1 .. (MaxInbound + 1) :
          (ctrl_handed >= n) ~> (ReadyWritten >= n \/ writer = "err" \/ ~Alive)

\* C9 witness: the resync Ready met a full queue, went through a worker and
\* was written
C9_WorkerReadyWritten ==
    /\ ctrl_spawned = 1
    /\ workers = 0
    /\ ctrl_lost = 0
    /\ ReadyWritten = 2

\* C10: send_intent on a full queue of a running writer returns with the
\* queue as it was and the dropped-intent counter one higher.
C10_FullQueueDropsIntent ==
    [][\A c \in CallbackThreads :
          (CallbackSend(c) /\ Connected /\ Len(chan) = QueueCap)
             => /\ chan' = chan
                /\ dropped_intent_count' = dropped_intent_count + 1
                /\ cb'[c] = NoIntent]_vars

\* C10 witness: an intent was dropped on a full queue
C10_IntentDropped ==
    /\ dropped_intent_count = 1
    /\ Len(chan) = QueueCap
    /\ Connected

(***************************************************************************)
(* Properties of the outbound queue (checked under SpecOutbound)           *)
(***************************************************************************)
\* the intent envelopes a callback holds, the queue buffers or stdout took
IntentsHeld ==
    SelectSeq(stdout \o chan, LAMBDA e : e.t = "intent")

IntentsBuilt == {c \in CallbackThreads : cb[c].t = "intent"}

\* C11: the ids send_intent assigns are 1, 2, 3, ... in the order of the
\* calls: they start at 1, never repeat and grow strictly, and every call
\* takes one, whether its envelope is enqueued, dropped on a full queue or
\* given up on a disconnected one, so that the counter is always one above
\* the number of calls made.
C11_IntentIdsCountCalls ==
    /\ \A i \in DOMAIN h_ids : h_ids[i] = i
    /\ next_intent_id = Len(h_ids) + 1
    /\ \A c \in IntentsBuilt : cb[c].id \in 1 .. Len(h_ids)
    /\ \A i \in DOMAIN IntentsHeld : IntentsHeld[i].id \in 1 .. Len(h_ids)
    /\ \A i, j \in DOMAIN IntentsHeld : i < j => IntentsHeld[i].id # IntentsHeld[j].id
    /\ \A c \in IntentsBuilt, i \in DOMAIN IntentsHeld : cb[c].id # IntentsHeld[i].id
    /\ \A c, d \in IntentsBuilt : c # d => cb[c].id # cb[d].id

\* C11 witness: the first call's intent was dropped on a full queue and the
\* second call was given the id 2
C11_IdTakenByDroppedIntent ==
    /\ h_ids = <<1, 2>>
    /\ dropped_intent_count = 1
    /\ \E c \in IntentsBuilt : cb[c].id = 2
    /\ IntentsHeld = <<>>

\* C12: stdout holds the envelopes in the order the queue accepted them:
\* what is written is always the first part of that order, and while the
\* writer runs the rest is exactly what the queue still buffers, so nothing
\* is reordered, written twice or left out.
C12_WrittenInEnqueueOrder ==
    /\ Len(stdout) <= Len(h_enqueued)
    /\ stdout = SubSeq(h_enqueued, 1, Len(stdout))
    /\ writer = "running" => h_enqueued = stdout \o chan

\* C12 witness: the writer runs and has written an intent between two Ready
\* envelopes, with a second intent still buffered
C12_IntentWrittenBetweenReadys ==
    /\ writer = "running"
    /\ Len(stdout) = 3
    /\ stdout[1].t = "ready"
    /\ stdout[2].t = "intent"
    /\ stdout[3].t = "ready"
    /\ chan # <<>>
    /\ Head(chan).t = "intent"

\* C13: until run() has enqueued its initial Ready nothing else is produced:
\* no intent id is taken, no resync Ready requested and no envelope handed
\* to the queue; so the first envelope the queue accepts, and the first one
\* written to stdout, is that Ready.
C13_InitialReadyFirst ==
    /\ main_pc = "send_ready"
          => /\ h_enqueued = <<>>
             /\ h_ids = <<>>
             /\ h_resyncs = 0
             /\ ctrl_handed = 0
             /\ resync_pending = FALSE
    /\ h_enqueued # <<>> => h_enqueued[1] = ready_envelope(LocalSid)
    /\ stdout # <<>> => stdout[1] = ready_envelope(LocalSid)

\* C13 witness: the initial Ready is on stdout, and an intent and a resync
\* Ready have been produced after it
C13_ReadyThenIntentAndResync ==
    /\ stdout # <<>>
    /\ stdout[1] = ready_envelope(LocalSid)
    /\ Len(h_enqueued) = 3
    /\ h_enqueued[2].t = "intent"
    /\ h_resyncs = 1

(***************************************************************************)
(* The acknowledgement mark (checked under Spec)                           *)
(***************************************************************************)
\* C14: last_ack is the largest ack carried by the patches applied since the
\* last reset (absent if none carried one): a patch without ack leaves it, a
\* patch with ack a makes it the larger of itself and a, an applied render
\* leaves it, and a reset clears it.
C14_LastAckHighWater ==
    ui_model_state.last_ack = h_ack_max

\* C14 witness: a render was applied on a state whose last_ack a patch had
\* set, and last_ack is still there
C14_AckKeptByRender ==
    /\ ev.kind = "render"
    /\ ev.outcome = "applied"
    /\ ev.had_rev
    /\ ui_model_state.last_ack = Some(2)

(***************************************************************************)
(* Properties of the patch applier (checked under SpecApplier).  They are  *)
(* stated over the document before and after the last operation, read     *)
(* with the functions below, which walk a document without changing it.    *)
(***************************************************************************)
\* whether `token` names an element of `items`
NamesItem(items, token) ==
    ParseUsize(token).ok /\ ParseUsize(token).val < Len(items)

\* the value at `tokens` in `doc`, if that location exists
RECURSIVE ValueAt(_, _)
ValueAt(doc, tokens) ==
    IF tokens = <<>> THEN Some(doc)
    ELSE IF IsObject(doc)
    THEN IF MapHas(doc[2], Head(tokens))
         THEN ValueAt(doc[2][Head(tokens)], Tail(tokens))
         ELSE None
    ELSE IF IsArray(doc)
    THEN IF NamesItem(doc[2], Head(tokens))
         THEN ValueAt(doc[2][ParseUsize(Head(tokens)).val + 1], Tail(tokens))
         ELSE None
    ELSE None

Exists(doc, tokens) == ValueAt(doc, tokens) # None

\* `doc` with the value at the existing location `tokens` exchanged for `value`
RECURSIVE Exchanged(_, _, _)
Exchanged(doc, tokens, value) ==
    IF tokens = <<>> THEN value
    ELSE IF IsObject(doc)
    THEN JObj([doc[2] EXCEPT ![Head(tokens)] = Exchanged(@, Tail(tokens), value)])
    ELSE JArr([doc[2] EXCEPT ![ParseUsize(Head(tokens)).val + 1] =
                                 Exchanged(@, Tail(tokens), value)])

Front(tokens) == SubSeq(tokens, 1, Len(tokens) - 1)
Last(tokens) == tokens[Len(tokens)]

\* the number of leading tokens of `tokens` that lead to an existing location
Reach(doc, tokens) ==
    CHOOSE n \in 0 .. Len(tokens) :
        /\ Exists(doc, SubSeq(tokens, 1, n))
        /\ n < Len(tokens) => ~Exists(doc, SubSeq(tokens, 1, n + 1))

\* the object {t1: {t2: ... {tn: value}}} (value itself for no tokens)
RECURSIVE Nested(_, _)
Nested(tokens, value) ==
    IF tokens = <<>> THEN value
    ELSE JObj(Head(tokens) :> Nested(Tail(tokens), value))

\* `doc` with `value` put under the keys `tokens` from location `at` on,
\* where `at` holds an object without the first of those keys
Grown(doc, at, tokens, value) ==
    Exchanged(doc, at,
              JObj(MapInsert(Unwrap(ValueAt(doc, at))[2], Head(tokens),
                             Nested(Tail(tokens), value))))

\* the tokens of the last operation, and its kind
OpTokens == patch_tokens.val
OpIs(kind) ==
    /\ patch_op # <<>>
    /\ patch_op[1] = kind
    /\ patch_tokens.ok
    /\ OpTokens # <<>>

\* C15: a Replace whose location does not exist (an absent object key, an
\* array index not below the length, a missing intermediate) returns an
\* error and leaves the document without any new key or element.
C15_ReplaceMissingAddsNothing ==
    (OpIs("replace") /\ ~Exists(patched_from, OpTokens))
       => /\ ~patch_ok
          /\ patched = patched_from

\* a token made of decimal digits only, and the number it writes
IsDecimal(token) ==
    /\ token # <<>>
    /\ \A i \in DOMAIN token : IsDigit(token[i])

\* what the claim says of an Add whose parent is the array `items`: a decimal
\* index up to the length appends or overwrites, every other token fails
AddToArray(at, items, token, value) ==
    IF IsDecimal(token) /\ DecimalValue(token, 0) = Len(items)
    THEN /\ patch_ok
         /\ patched = Exchanged(patched_from, at, JArr(Append(items, value)))
    ELSE IF IsDecimal(token) /\ DecimalValue(token, 0) < Len(items)
    THEN /\ patch_ok
         /\ patched = Exchanged(patched_from, at,
                                JArr(VecSet(items, DecimalValue(token, 0), value)))
    ELSE /\ ~patch_ok
         /\ patched = patched_from

\* what the claim says of an Add whose walk has reached the object at `at`
\* with the tokens `rest` to go: the keys are created down to the value
AddBelowObject(at, rest, value) ==
    /\ patch_ok
    /\ patched = Grown(patched_from, at, rest, value)

\* the Add that walked `n` tokens of the document before it
AddAsClaimed(n, value) ==
    \E at \in {SubSeq(OpTokens, 1, n)}, rest \in {SubSeq(OpTokens, n + 1, Len(OpTokens))} :
        \E parent \in {Unwrap(ValueAt(patched_from, at))} :
            /\ (IsObject(parent) /\ n < Len(OpTokens))
                  => AddBelowObject(at, rest, value)
            /\ (n = Len(OpTokens))
                  => /\ patch_ok
                     /\ patched = Exchanged(patched_from, OpTokens, value)
            /\ (IsArray(parent) /\ n = Len(OpTokens) - 1)
                  => AddToArray(at, parent[2], Last(OpTokens), value)

\* C16: an Add below an object inserts the key if absent and overwrites it
\* if present, creating empty objects for the missing intermediate keys;
\* with an array parent a decimal index equal to the length appends, one
\* below the length overwrites that element, and an index above the length
\* or a token that is not decimal fails and leaves the array as it was.
C16_AddInsertsOrAppends ==
    OpIs("add") => AddAsClaimed(Reach(patched_from, OpTokens), patch_op[3])

\* `items` without its element `index` (from 0): the elements before it,
\* then the elements after it
Shifted(items, index) ==
    SubSeq(items, 1, index) \o SubSeq(items, index + 2, Len(items))

\* the container `parent` without its entry `token`
Without(parent, token) ==
    IF IsObject(parent) THEN JObj(MapRemove(parent[2], token))
    ELSE JArr(Shifted(parent[2], ParseUsize(token).val))

\* C17: a Remove succeeds exactly when its location exists, and then the
\* document is the one before it without that key or element, the elements
\* after a removed element moved up by one in their order; a Remove whose
\* intermediate token, object key or array index (at or above the length,
\* 0 on an empty array included) is missing fails and leaves the document
\* as it was, creating nothing.
C17_RemoveTakesExisting ==
    OpIs("remove")
       => IF Exists(patched_from, OpTokens)
          THEN /\ patch_ok
               /\ patched = Exchanged(patched_from, Front(OpTokens),
                                      Without(Unwrap(ValueAt(patched_from, Front(OpTokens))),
                                              Last(OpTokens)))
          ELSE /\ ~patch_ok
               /\ patched = patched_from

\* C17 witness: the first of two elements was removed and the second is
\* now the first
C17_HeadRemovedTailShifted ==
    /\ OpIs("remove")
    /\ OpTokens = <<K_n, T_0>>
    /\ patched_from = DocLists
    /\ patch_ok
    /\ ValueAt(patched, <<K_n>>) = Some(JArr(<<JNum(2)>>))

\* C18: with the empty path a Replace or an Add succeeds on every document
\* and makes its value the whole document, and a Remove succeeds on every
\* document and makes the document the empty object.
C18_EmptyPathIsRoot ==
    (patch_op # <<>> /\ patch_op[2] = <<>>)
       => /\ patch_tokens = Ok(<<>>)
          /\ patch_ok
          /\ patched = IF patch_op[1] = "remove" THEN EmptyObject ELSE patch_op[3]

\* C18 witness: the root was replaced by an empty array, and a Remove with
\* the empty path then made it the empty object
C18_RootReplacedThenReset ==
    /\ patch_count = 2
    /\ patch_op = <<"remove", <<>>>>
    /\ patched_from = JArr(<<>>)
    /\ patched = EmptyObject

\* a token written with the escapes: "~0" for '~' and "~1" for '/'
RECURSIVE Escaped(_)
Escaped(token) ==
    IF token = <<>> THEN <<>>
    ELSE (IF Head(token) = "~" THEN <<"~", "0">>
          ELSE IF Head(token) = "/" THEN <<"~", "1">>
          ELSE <<Head(token)>>) \o Escaped(Tail(token))

\* the pointer that names the tokens: each one escaped, after a '/'
RECURSIVE Pointer(_)
Pointer(tokens) ==
    IF tokens = <<>> THEN <<>>
    ELSE <<"/">> \o Escaped(Head(tokens)) \o Pointer(Tail(tokens))

\* a '~' of the path that is not followed by '0' or '1'
LoneTilde(path) ==
    \E i \in DOMAIN path :
        /\ path[i] = "~"
        /\ i = Len(path) \/ path[i + 1] \notin {"0", "1"}

\* what the claim says parse_pointer makes of `path`
ParsedAsClaimed(path, parsed) ==
    IF path = <<>> THEN parsed = Ok(<<>>)
    ELSE IF Head(path) # "/" \/ LoneTilde(path) THEN ~parsed.ok
    ELSE /\ parsed.ok
         /\ parsed.val # <<>>
         /\ Pointer(parsed.val) = path

\* C19: parse_pointer gives no tokens for the empty path, an error for a
\* path that does not begin with '/' or that holds a '~' not followed by '0'
\* or '1', and otherwise the tokens between the slashes with every "~1" read
\* as '/' and every "~0" as '~' in one pass: "/a~1b" is the key "a/b",
\* "/a~0b" the key "a~b", and "/~01" the key "~1".
C19_PointerTokens ==
    patch_op # <<>>
       => /\ ParsedAsClaimed(patch_op[2], patch_tokens)
          /\ patch_op[2] = <<"/", "a", "~", "1", "b">>
                => patch_tokens = Ok(<< <<"a", "/", "b">> >>)
          /\ patch_op[2] = <<"/", "a", "~", "0", "b">>
                => patch_tokens = Ok(<< <<"a", "~", "b">> >>)
          /\ patch_op[2] = <<"/", "~", "0", "1">>
                => patch_tokens = Ok(<< <<"~", "1">> >>)

\* C19 witness: an operation on the path "/~01" found the key "~1" and
\* removed it
C19_TildeOneKeyReached ==
    /\ patch_op = <<"remove", <<"/", "~", "0", "1">>>>
    /\ patch_tokens = Ok(<<K_tilde>>)
    /\ patched_from = DocEscapes
    /\ patch_ok
    /\ patched = JObj(K_slash :> JNum(1))

(***************************************************************************)
(* Properties of the framing (checked under SpecFraming)                   *)
(***************************************************************************)
\* a payload that write_frame was given with a max_payload it fits in
Framed ==
    /\ frame_pc \in {"written", "read"}
    /\ Len(frame_payload) <= frame_max

\* C20: for a payload no longer than max, write_frame writes four bytes
\* that are the payload's length in big-endian order (b"abc" gives
\* 00 00 00 03 61 62 63), then the payload's bytes and nothing else, and
\* read_frame on these bytes with the same max returns the payload.
C20_FrameRoundTrip ==
    /\ Framed
          => /\ frame_written
             /\ Len(frame_out) = 4 + Len(frame_payload)
             /\ \A i \in 1 .. 4 : frame_out[i] \in 0 .. 255
             /\ frame_out[1] * 256 * 256 * 256 + frame_out[2] * 256 * 256
                   + frame_out[3] * 256 + frame_out[4] = Len(frame_payload)
             /\ SubSeq(frame_out, 5, Len(frame_out)) = frame_payload
    /\ (Framed /\ frame_payload = PayloadAbc)
          => frame_out = <<0, 0, 0, 3, 97, 98, 99>>
    /\ (Framed /\ frame_pc = "read")
          => frame_back = Ok(frame_payload)

\* C20 witness: a payload of 258 bytes went through write_frame with the
\* header 00 00 01 02 and came back from read_frame
C20_TwoByteLengthReadBack ==
    /\ frame_pc = "read"
    /\ Len(frame_payload) = 258
    /\ frame_max = UI_TO_ELIXIR_CAP
    /\ SubSeq(frame_out, 1, 4) = <<0, 0, 1, 2>>
    /\ frame_back = Ok(frame_payload)

\* a stream was handed to read_frame
StreamRead == frame_pc \in {"read", "read_cut", "read_foreign"}

\* the length the first four bytes of the stream read announce
Announced ==
    frame_in[1] * 16777216 + frame_in[2] * 65536 + frame_in[3] * 256 + frame_in[4]

\* C21: read_frame returns UnexpectedEof when the stream ends inside the
\* header or inside the payload, and InvalidData when the header announces
\* more than max, having taken the four header bytes and nothing of what
\* follows them; write_frame returns InvalidData for a payload longer than
\* max and has then written nothing to the sink.
C21_FramingErrors ==
    /\ (StreamRead /\ Len(frame_in) < 4)
          => /\ ~frame_back.ok
             /\ frame_kind = "UnexpectedEof"
    /\ (StreamRead /\ Len(frame_in) >= 4 /\ Announced > frame_max)
          => /\ ~frame_back.ok
             /\ frame_kind = "InvalidData"
             /\ frame_pos = 4
    /\ (StreamRead /\ Len(frame_in) >= 4 /\ Announced <= frame_max
           /\ Len(frame_in) < 4 + Announced)
          => /\ ~frame_back.ok
             /\ frame_kind = "UnexpectedEof"
    /\ (frame_pc \notin {"idle", "drawn"} /\ Len(frame_payload) > frame_max)
          => /\ ~frame_written
             /\ frame_wkind = "InvalidData"
             /\ frame_out = <<>>

\* C21 witness: with max 2, write_frame refused a payload of three bytes,
\* and read_frame refused a header announcing three bytes, leaving the
\* three bytes after it in the stream
C21_OversizedBothWays ==
    /\ frame_pc = "read_foreign"
    /\ frame_max = 2
    /\ Len(frame_payload) = 3
    /\ frame_wkind = "InvalidData"
    /\ frame_out = <<>>
    /\ frame_in = <<0, 0, 0, 3, 97, 98, 99>>
    /\ frame_kind = "InvalidData"
    /\ frame_pos = 4

(***************************************************************************)
(* The end of the reader (checked under Spec)                              *)
(***************************************************************************)
\* the quit of the event loop is queued, or has run
QuitRequested ==
    (\E i \in DOMAIN ui_tasks : ui_tasks[i] = "quit") \/ main_pc \in {"exited", "joining", "done"}

\* what the reader has returned, from what ended it
ReaderReturned ==
    IF reader_pc # "done"
    THEN /\ reader_result = "none"
         /\ reader_cause = "none"
         /\ ~QuitRequested
    ELSE /\ reader_cause \in EndingFrames
         /\ reader_result = (IF reader_cause = "UnexpectedEof" THEN "ok" ELSE "err")
         /\ QuitRequested

\* once the reader has returned no further frame is delivered
NothingAfterEnd ==
    reader_pc = "done"
       => /\ reader_pc' = "done"
          /\ frames_read' = frames_read
          /\ reader_result' = reader_result
          /\ Len(ui_tasks') <= Len(ui_tasks)

C23_ExitZeroOnlyAfterCleanEof == exit_code = Some(0) => reader_result = "ok"

(***************************************************************************)
(* Error envelopes between renders: the controller sends renders and Error *)
(* envelopes of every code, and what the reader handled is recorded.       *)
(***************************************************************************)
\* the rev field of an Error envelope is optional
ErrorRevs == {None, Some(0), Some(3)}

NextErrors ==
    \/ MainSendReady
    \/ MainDrop
    \/ MainShutdown
    \/ ReaderPost("render")
    \/ \E sid \in Sids, rev \in ErrorRevs, code \in ErrorCodes :
          ReaderErrorEnvelope(sid, rev, code)
    \/ ReaderEnqueue
    \/ \E frame \in EndingFrames : ReaderEnd(frame)
    \/ \E sid \in Sids, rev \in U64, i \in 1 .. Len(RenderVms),
          screen_render \in ScreenRenderResults :
          UiRender(sid, rev, RenderVms[i], screen_render)
    \/ UiEnqueue
    \/ UiQuit
    \/ WorkerSend
    \/ WriterWrite
    \/ WriterExit

SpecErrors == Init /\ [][NextErrors]_vars

\* a step in which the reader handled an Error envelope: it took a frame
\* and posted no task
ErrorHandled ==
    /\ frames_read' = frames_read + 1
    /\ ui_tasks' = ui_tasks

\* the step went into request_resync, which sets the flag and goes on to
\* enqueue a Ready unless the flag was set already
WentToResync ==
    /\ resync_pending'
    /\ reader_pc' = (IF resync_pending THEN "read" ELSE "enqueue")

\* the step left the resync flag and the reader where they were
NoResync ==
    /\ resync_pending' = resync_pending
    /\ reader_pc' = "read"

\* C24: an inbound Error envelope requests resync iff its code is one of
\* decode_error, frame_too_large, invalid_envelope, resync_required,
\* rev_mismatch, patch_apply_error; for every code, sid and rev, handling it
\* leaves vm, last_rev, last_ack and screen_id unchanged.
C24_ErrorCodesResync ==
    [][ErrorHandled
          => /\ err_env' # None
             /\ ui_model_state' = ui_model_state
             /\ IF Unwrap(err_env').code \in
                      {"decode_error", "frame_too_large", "invalid_envelope",
                       "resync_required", "rev_mismatch", "patch_apply_error"}
                THEN WentToResync
                ELSE NoResync]_vars

\* C24 witness: an Error envelope with the code of a failed patch, a foreign
\* sid and a rev sent the reader to enqueue a Ready, in a session that holds
\* an applied render
C24_ForeignPatchErrorResyncs ==
    /\ err_env = Some([sid |-> "S2", rev |-> Some(3), code |-> "patch_apply_error"])
    /\ reader_pc = "enqueue"
    /\ ui_model_state.last_rev # None
    /\ ui_model_state.vm # EmptyObject

(***************************************************************************)
(* Renders and patches that write the root: the controller sends renders   *)
(* whose vm is any JSON value and patches whose path is the empty string.  *)
(***************************************************************************)
\* the vm of a render envelope: an object, an array, a number
RootVms == {VmHome, JArr(<<>>), JNum(7)}

\* patches that set or remove the root, and one that does not
OpsRootReplace == << <<"replace", <<>>, JArr(<<>>)>> >>
OpsRootAdd == << <<"add", <<>>, JStr("s")>> >>
OpsRootRemove == << <<"remove", <<>>>> >>
RootOps == {OpsRootReplace, OpsRootAdd, OpsRootRemove, OpsTitle}

NextRoots ==
    \/ MainSendReady
    \/ MainDrop
    \/ MainShutdown
    \/ \E kind \in {"render", "patch"} : ReaderPost(kind)
    \/ \E frame \in EndingFrames : ReaderEnd(frame)
    \/ \E sid \in Sids, rev \in U64, vm \in RootVms, screen_render \in ScreenRenderResults :
          UiRender(sid, rev, vm, screen_render)
    \/ \E sid \in Sids, rev \in U64, ack \in Acks, ops \in RootOps,
          adapter \in ScreenRenderResults :
          UiPatch(sid, rev, ack, ops, adapter)
    \/ UiEnqueue
    \/ UiQuit
    \/ WorkerSend
    \/ WriterWrite
    \/ WriterExit

SpecRoots == Init /\ [][NextRoots]_vars

\* C25: in every reachable session state the root of the vm is an object,
\* whatever renders and patches were applied.
C25_RootIsObject == IsObject(ui_model_state.vm)

(***************************************************************************)
(* apply_vm_patch_ops on a list of ops (lib.rs 600-610): a document and a  *)
(* list are drawn and the function is called once.                         *)
(***************************************************************************)
MaxListLen == 3

OpAddN == <<"add", Path(<<K_n>>), JNum(1)>>
OpReplaceN == <<"replace", Path(<<K_n>>), JNum(2)>>
OpRemoveN == <<"remove", Path(<<K_n>>)>>
OpAddAB == <<"add", Path(<<K_a, K_b>>), JNum(3)>>
OpRemoveMissing == <<"remove", Path(<<K_missing>>)>>
ListOps == {OpAddN, OpReplaceN, OpRemoveN, OpAddAB, OpRemoveMissing}
ListDocs == {EmptyObject, DocLists}

InitPatchList ==
    /\ HostInit
    /\ FrameIdle
    /\ ScreenIdle
    /\ BackpressureIdle
    /\ patched \in ListDocs
    /\ patched_from = patched
    /\ patch_op = <<>>
    /\ patch_ok = TRUE
    /\ patch_tokens = Ok(<<>>)
    /\ patch_count = 0
    /\ patch_list \in SeqsUpTo(ListOps, MaxListLen)
    /\ patch_pc = "drawn"

ApplyVmPatchOps ==
    /\ patch_pc = "drawn"
    /\ \E result \in {apply_vm_patch_ops(patched, patch_list)} :
           /\ patched' = result.val
           /\ patch_ok' = result.ok
    /\ patched_from' = patched
    /\ patch_count' = LoopTurns(Ok(patched), patch_list)
    /\ patch_pc' = "applied"
    /\ UNCHANGED <<answered, bp_vars, frame_vars, screen_vars, patch_list, patch_op, patch_tokens,
                   session_vars, intent_vars, reader_vars, ctrl_vars, resync_pending,
                   chan, workers, writer, stdout, main_pc, exit_code, err_env, ui_tasks, ui_pc,
                   h_enqueued>>

NextPatchList == ApplyVmPatchOps

SpecPatchList == InitPatchList /\ [][NextPatchList]_vars

\* the next op on the outcome of the ops before it, if they succeeded
ThenOp(before, op) == IF before.ok THEN ApplyOp(before.val, op) ELSE before

\* the outcome of the first i ops of the list, one after the other
RECURSIVE After(_, _, _)
After(doc, ops, i) ==
    IF i = 0 THEN Ok(doc) ELSE ThenOp(After(doc, ops, i - 1), ops[i])

\* the ops that are reached: those with no failing op before them
Reached(doc, ops) == {i \in 1 .. Len(ops) : After(doc, ops, i - 1).ok}

\* C26: apply_vm_patch_ops applies the ops in list order, each to the VM the
\* ops before it produced; at the first failing op it returns the error, no
\* later op is applied, and what the earlier ops did stays in the VM.
C26_OpsInOrderNoRollback ==
    patch_pc = "applied"
       => /\ patch_ok = After(patched_from, patch_list, Len(patch_list)).ok
          /\ patched = After(patched_from, patch_list, Len(patch_list)).val
          /\ patch_count = Cardinality(Reached(patched_from, patch_list))
          /\ ~patch_ok => /\ patch_count >= 1
                          /\ ~ApplyOp(After(patched_from, patch_list, patch_count - 1).val,
                                      patch_list[patch_count]).ok
                          /\ patched = ApplyOp(After(patched_from, patch_list, patch_count - 1).val,
                                               patch_list[patch_count]).val

\* C26 witness: on {} the list [add /n 1, remove /missing, add /a/b 3] failed
\* at its second op; the VM holds n and does not hold a
C26_FailedAtSecondOp ==
    /\ patch_pc = "applied"
    /\ patched_from = EmptyObject
    /\ patch_list = <<OpAddN, OpRemoveMissing, OpAddAB>>
    /\ ~patch_ok
    /\ patch_count = 2
    /\ patched = JObj(K_n :> JNum(1))

(***************************************************************************)
(* apply_patch on its own (lib.rs 432-447): a session state and a list of  *)
(* ops are drawn, and the binding's screen function returns any result.    *)
(***************************************************************************)
MaxScreenOps == 2

OpSwapReplace == <<"replace", ScreenNamePath, JStr("devices")>>
OpSwapAdd == <<"add", ScreenNamePath, JStr("clock")>>
OpSwapRemove == <<"remove", ScreenNamePath>>
\* "/screen": the parent of the name
OpScreenParent == <<"replace", Path(<<K_screen>>), JObj(K_name :> JStr("devices"))>>
\* "/screen/name/": one more, empty, token
OpScreenNameSlash == <<"add", ScreenNamePath \o <<"/">>, JStr("x")>>
\* "/screen/nam"
OpScreenNam == <<"add", Path(<<K_screen, <<"n", "a", "m">>>>), JStr("x")>>
OpTitle == <<"replace", Path(<<K_app, K_title>>), JStr("Y")>>
ScreenOps ==
    {OpSwapReplace, OpSwapAdd, OpSwapRemove, OpScreenParent, OpScreenNameSlash,
     OpScreenNam, OpTitle}

\* session states with an applied render
ScreenStates ==
    {[screen_id |-> id, vm |-> vm, last_rev |-> Some(0), last_ack |-> None] :
        id \in ScreenIds, vm \in {VmHome, EmptyObject}}

InitScreen ==
    /\ HostInit
    /\ PatchIdle
    /\ FrameIdle
    /\ BackpressureIdle
    /\ screen_ops \in SeqsUpTo(ScreenOps, MaxScreenOps)
    /\ screen_from \in ScreenStates
    /\ screen_state = screen_from
    /\ screen_result = Err(0)
    /\ screen_call = "none"
    /\ screen_ok = TRUE
    /\ screen_pc = "drawn"

ApplyPatch(adapter) ==
    /\ screen_pc = "drawn"
    /\ \E result \in {apply_patch(screen_state, screen_ops, adapter)} :
           /\ screen_state' = result.val
           /\ screen_ok' = result.ok
    /\ screen_call' = apply_patch_calls(screen_state, screen_ops)
    /\ screen_result' = adapter
    /\ screen_pc' = "applied"
    /\ UNCHANGED <<answered, bp_vars, frame_vars, patch_vars, screen_ops, screen_from,
                   session_vars, intent_vars, reader_vars, ctrl_vars, resync_pending,
                   chan, workers, writer, stdout, main_pc, exit_code, err_env, ui_tasks, ui_pc,
                   h_enqueued>>

NextScreen == \E adapter \in ScreenRenderResults : ApplyPatch(adapter)

SpecScreen == InitScreen /\ [][NextScreen]_vars

\* an op of the list has the path "/screen/name", character by character
NamesScreen(ops) ==
    \E i \in 1 .. Len(ops) :
        ops[i][2] = <<"/", "s", "c", "r", "e", "e", "n", "/", "n", "a", "m", "e">>

\* C27: a patch that is applied calls apply_screen_render and stores the id
\* it returns iff one of its ops (replace, add or remove) has a path equal
\* to /screen/name; every other applied patch calls apply_screen_patch and
\* leaves screen_id as it was.
C27_ScreenSwapDetection ==
    (screen_pc = "applied" /\ screen_ok)
       => IF NamesScreen(screen_ops)
          THEN /\ screen_call = "apply_screen_render"
               /\ screen_result.ok
               /\ screen_state.screen_id = screen_result.val
          ELSE /\ screen_call = "apply_screen_patch"
               /\ screen_state.screen_id = screen_from.screen_id

\* C27 witness: the second op of an applied patch removed /screen/name, and
\* screen_id went from 0 to the 1 apply_screen_render returned
C27_SwapBySecondOp ==
    /\ screen_pc = "applied" /\ screen_ok
    /\ screen_ops = <<OpTitle, OpSwapRemove>>
    /\ screen_from.screen_id = 0
    /\ screen_call = "apply_screen_render"
    /\ screen_state.screen_id = 1

(***************************************************************************)
(* The screen id of the session (checked under Spec)                       *)
(***************************************************************************)
\* C28: whenever last_rev is present, screen_id is the id the most recent
\* successful apply_screen_render returned, and that call was made after
\* the last reset of the session state.
C28_ScreenIdFromLastRender ==
    ui_model_state.last_rev # None => h_screen = Some(ui_model_state.screen_id)

\* C28 witness: after a reset and its resync a render was applied, a patch
\* without a screen swap followed, and the session holds the id 1
C28_ScreenIdKeptByPatch ==
    /\ ev.kind = "patch" /\ ev.outcome = "applied"
    /\ ui_model_state.screen_id = 1
    /\ h_screen = Some(1)
    /\ ctrl_handed >= 2

ErrorTookEffect ==
    /\ frames_read' = frames_read + 1
    /\ ui_tasks' = ui_tasks
    /\ ~resync_pending /\ resync_pending'

\* C30: inbound envelopes take effect in stream order: when the resync
\* request of an Error envelope takes effect, the task of every render and
\* patch read before it has run.
C30_EffectsInStreamOrder == [][ErrorTookEffect => ui_tasks = <<>>]_vars

(***************************************************************************)
(* Shutdown (checked under Spec, and under FairShutdown for what must      *)
(* eventually happen)                                                      *)
(***************************************************************************)
\* C31: shutdown drains the writer: when the process has ended and the
\* writer has not failed, every envelope the queue accepted has been written
\* to stdout, in order.
C31_ShutdownDrainsQueue ==
    (main_pc = "done" /\ writer # "err") => stdout = h_enqueued

\* the main thread runs when it can; no other thread is promised to
FairShutdown == Spec /\ WF_vars(MainDrop) /\ WF_vars(MainShutdown)

\* C32: run() returns once the event loop has exited, whatever the reader
\* and the writer do; it has joined the writer only if the writer had
\* finished.
C32_RunReturns ==
    /\ (main_pc = "exited") ~> (main_pc = "done")
    /\ [][(main_pc = "joining" /\ main_pc' = "done")
             => /\ exit_code' # None
                /\ writer' = writer /\ chan' = chan /\ stdout' = stdout]_vars

\* C32 witness: run() has returned while the writer was still running with
\* an envelope left in the queue
C32_ReturnedPastActiveWriter ==
    /\ main_pc = "done"
    /\ writer = "running"
    /\ chan # <<>>
    /\ reader_pc = "done"

(***************************************************************************)
(* The bound of the outbound channel (checked under SpecOutbound)          *)
(***************************************************************************)
\* what PROJECTION_UI_OUTBOUND_QUEUE_CAP can hold
RawCaps == {None, Some(0), Some(1), Some(QueueCap), Some(1000)}

\* a worker is spawned only on a full queue, which it leaves as it is
WorkerSpawnedOnFull == workers' > workers => (Len(chan) = QueueCap /\ chan' = chan)

\* a worker's envelope enters the queue only when a slot is free
WorkerWaitsForSlot == (workers' < workers /\ chan' # chan) => Len(chan) < QueueCap

\* C35: the channel never buffers more envelopes than its capacity, which is
\* at least 1, whatever the interleaving of intent try-sends, the initial
\* Ready, control workers and the writer; a blocked worker keeps its
\* envelope outside the queue until a slot is free.
C35_QueueWithinCapacity ==
    /\ [](Len(chan) <= QueueCap)
    /\ [](\A raw \in RawCaps : parse_outbound_queue_capacity(raw) >= 1)
    /\ [][WorkerSpawnedOnFull /\ WorkerWaitsForSlot]_vars

\* C35 witness: a worker is blocked beside a full queue while a callback is
\* about to try its send
C35_WorkerBlockedOnFullQueue ==
    /\ workers > 0
    /\ Len(chan) = QueueCap
    /\ \E c \in CallbackThreads : cb[c].t = "intent"

(***************************************************************************)
(* Intents from one thread: the callbacks of the toolkit run on the thread *)
(* of the event loop, one at a time.  The controller sends Error           *)
(* envelopes, whose resync Readys fill the queue.                          *)
(***************************************************************************)
NextIntents ==
    \/ MainSendReady
    \/ MainDrop
    \/ MainShutdown
    \/ \E code \in ErrorCodes : ReaderError(code)
    \/ ReaderEnqueue
    \/ \E frame \in EndingFrames : ReaderEnd(frame)
    \/ UiQuit
    \/ CallbackEmpty("on_intent")
    \/ \E big \in BOOLEAN : CallbackBuild("on_intent", big)
    \/ CallbackSend("on_intent")
    \/ WorkerSend
    \/ WriterWrite
    \/ WriterExit

SpecIntents == Init /\ [][NextIntents]_vars

\* the ids of the intents the queue accepted, in the order it accepted them
EnqueuedIds ==
    [i \in DOMAIN SelectSeq(h_enqueued, LAMBDA e : e.t = "intent") |->
        SelectSeq(h_enqueued, LAMBDA e : e.t = "intent")[i].id]

LostFor(why) == {i \in DOMAIN h_lost : h_lost[i].why = why}

\* a callback with an empty name left the counters, the queue and the
\* callbacks as they were
EmptyNameDoesNothing ==
    h_empty' # h_empty
       => /\ next_intent_id' = next_intent_id
          /\ dropped_intent_count' = dropped_intent_count
          /\ chan' = chan
          /\ cb' = cb

\* C36: a callback with an empty name takes no id and enqueues nothing,
\* every other callback takes exactly one id; between callbacks the ids
\* taken are those of the intents enqueued, dropped on a full queue or given
\* up on a disconnected queue; the enqueued ids grow strictly in queue order
\* and the missing ids are those of the intents not enqueued, the ones given
\* up on a disconnected queue lying above every enqueued id.
C36_IntentAccounting ==
    /\ [](next_intent_id - 1 = Len(h_ids))
    /\ [](dropped_intent_count = Cardinality(LostFor("full")))
    /\ [](\A i, j \in DOMAIN EnqueuedIds : i < j => EnqueuedIds[i] < EnqueuedIds[j])
    /\ [](IntentsBuilt = {}
             => /\ next_intent_id - 1 =
                      Len(EnqueuedIds) + dropped_intent_count
                         + Cardinality(LostFor("disconnected"))
                /\ (1 .. (next_intent_id - 1)) \ {EnqueuedIds[i] : i \in DOMAIN EnqueuedIds}
                      = {h_lost[i].id : i \in DOMAIN h_lost})
    /\ [](\A i \in LostFor("disconnected") : \A j \in DOMAIN EnqueuedIds :
             EnqueuedIds[j] < h_lost[i].id)
    /\ [][EmptyNameDoesNothing]_vars

\* C36 witness: after a callback with an empty name the intent 1 was dropped
\* on a full queue and the intent 2 was enqueued
C36_SecondEnqueuedAfterDrop ==
    /\ h_empty = 1
    /\ h_lost = <<[id |-> 1, why |-> "full"]>>
    /\ EnqueuedIds = <<2>>
    /\ next_intent_id = 3

(***************************************************************************)
(* An envelope above the outbound ceiling                                  *)
(***************************************************************************)
\* writer_loop has returned the error of write_frame
WriterGone == writer = "err"

\* the writer took an oversized envelope from the head of the queue
OversizedTaken == chan # <<>> /\ Head(chan).big /\ Len(chan') < Len(chan)

\* C37: an envelope above UI_TO_ELIXIR_CAP is never written, taking it ends
\* the writer with the error and nothing written; once the writer has ended
\* nothing is written or enqueued any more, an intent sent is given up on
\* the disconnected queue without counting as dropped, and a resync request
\* still raises resync_pending while its Ready is given up.
C37_OversizedEndsWriter ==
    /\ [](\A i \in DOMAIN stdout : ~stdout[i].big)
    /\ [](WriterGone => chan = <<>>)
    /\ [][OversizedTaken => (writer' = "err" /\ stdout' = stdout)]_vars
    /\ [][WriterGone => /\ writer' = "err"
                        /\ stdout' = stdout
                        /\ chan' = chan
                        /\ h_enqueued' = h_enqueued
                        /\ dropped_intent_count' = dropped_intent_count]_vars
    /\ [][(WriterGone /\ h_lost' # h_lost)
             => h_lost'[Len(h_lost')].why = "disconnected"]_vars
    /\ [][(WriterGone /\ reader_pc = "read" /\ reader_pc' = "enqueue")
             => (~resync_pending /\ resync_pending')]_vars
    /\ [][(WriterGone /\ h_resyncs' # h_resyncs)
             => (resync_pending' /\ ctrl_lost' = ctrl_lost + 1 /\ workers' = workers)]_vars

\* C37 witness: after the writer ended on an oversized intent, a later intent
\* was given up on the disconnected queue and a resync was requested whose
\* Ready was given up, with only the initial Ready written
C37_ResyncLostAfterOversized ==
    /\ WriterGone
    /\ resync_pending
    /\ ctrl_lost = 1
    /\ ctrl_spawned = 0
    /\ \E i \in DOMAIN h_lost : h_lost[i].why = "disconnected"
    /\ Len(stdout) = 1

(***************************************************************************)
(* set_path after a failure                                                *)
(***************************************************************************)
\* the last operation went through set_path with a path of some tokens
OpSets ==
    /\ patch_op # <<>>
    /\ patch_op[1] \in {"replace", "add"}
    /\ patch_tokens.ok
    /\ OpTokens # <<>>

\* the walk of the last operation left the document before it at token `n`,
\* with tokens before the last still to walk
StoppedInside(n) == n < Len(OpTokens) - 1

\* the document before the last operation with empty objects under the
\* intermediate keys that were missing below `at`
WithIntermediates(at, n) ==
    Grown(patched_from, at, SubSeq(OpTokens, n + 1, Len(OpTokens) - 1), EmptyObject)

\* what became of a set_path whose walk found the first `n` tokens
SetPathOutcome(n) ==
    \E at \in {SubSeq(OpTokens, 1, n)} :
        \E parent \in {Unwrap(ValueAt(patched_from, at))} :
            /\ (patch_op[1] = "replace" /\ StoppedInside(n) /\ IsObject(parent))
                  => /\ ~patch_ok
                     /\ patched = WithIntermediates(at, n)
                     /\ patched # patched_from
            /\ (StoppedInside(n) /\ IsArray(parent))
                  => /\ ~patch_ok
                     /\ patched = patched_from
            /\ (~patch_ok /\ patched # patched_from)
                  => /\ patch_op[1] = "replace"
                     /\ StoppedInside(n)
                     /\ IsObject(parent)

\* C38: a Replace whose intermediate object keys are missing returns an
\* error and leaves the empty objects its descent created, so the document
\* differs from the one before; a descent that misses inside an array fails
\* with the document unchanged; no other failed set_path changes the document.
C38_SetPathNoRollback ==
    OpSets => SetPathOutcome(Reach(patched_from, OpTokens))

\* C38 witness: the Replace at /missing/a/b failed on the document with the
\* lists and left "missing": {"a": {}} behind
C38_FailedReplaceLeftObjects ==
    /\ OpIs("replace")
    /\ patched_from = DocLists
    /\ OpTokens = <<K_missing, K_a, K_b>>
    /\ ~patch_ok
    /\ ValueAt(patched, <<K_missing, K_a>>) = Some(EmptyObject)

(***************************************************************************)
(* The end of the inbound stream                                           *)
(***************************************************************************)
\* read_frame has returned an error on the stream it was given
ReadFailed == frame_pc \in {"read", "read_cut", "read_foreign"} /\ frame_kind # "none"

\* C40: when read_frame fails, reader_loop returns success only for a stream
\* that ended at a frame boundary, with no header byte read; a stream that
\* ends inside a header or inside a payload makes it return an error; and no
\* payload is handed on in either case.
C40_TruncatedFrameIsError ==
    ReadFailed
       => /\ reader_loop_returns(frame_kind) = "ok" <=> frame_in = <<>>
          /\ ~frame_back.ok

(***************************************************************************)
(* Backpressure (lib.rs 382-394): intents fired from one thread at a       *)
(* channel of small capacity whose writer is blocked, or takes envelopes   *)
(* now and then.  The counters are far from the width of u64.              *)
(***************************************************************************)
BackpressureCaps == {1, 2}

InitBackpressure ==
    /\ HostInit
    /\ PatchIdle
    /\ FrameIdle
    /\ ScreenIdle
    /\ bp_cap \in BackpressureCaps
    /\ bp_writer \in {"blocked", "running"}
    /\ bp_queue = <<>>
    /\ bp_next = 1
    /\ bp_dropped = 0
    /\ bp_log = <<>>

HostAside ==
    UNCHANGED <<patch_vars, frame_vars, screen_vars, answered,
                session_vars, intent_vars, reader_vars, ctrl_vars, resync_pending,
                chan, workers, writer, stdout, main_pc, exit_code, err_env, ui_tasks, ui_pc,
                h_enqueued>>

\* send_intent: the fetch_add, the try_send, and on Full the count and the
\* report
FireIntent ==
    /\ bp_next <= MaxFired
    /\ bp_next' = bp_next + 1
    /\ IF Len(bp_queue) < bp_cap
       THEN /\ bp_queue' = Append(bp_queue, bp_next)
            /\ UNCHANGED <<bp_dropped, bp_log>>
       ELSE /\ bp_dropped' = bp_dropped + 1
            /\ bp_log' = IF DropReported(bp_dropped + 1)
                         THEN Append(bp_log, bp_dropped + 1)
                         ELSE bp_log
            /\ UNCHANGED bp_queue
    /\ UNCHANGED <<bp_cap, bp_writer>>
    /\ HostAside

\* the writer takes the oldest envelope
WriterTakes ==
    /\ bp_writer = "running"
    /\ bp_queue # <<>>
    /\ bp_queue' = Tail(bp_queue)
    /\ UNCHANGED <<bp_cap, bp_writer, bp_next, bp_dropped, bp_log>>
    /\ HostAside

NextBackpressure ==
    \/ FireIntent
    \/ WriterTakes

SpecBackpressure == InitBackpressure /\ [][NextBackpressure]_vars

PowersOfTwo == {1, 2, 4, 8, 16}

\* the counts from 1 to n that are powers of two, in order
ReportsUpTo(n) == SelectSeq([i \in 1 .. n |-> i], LAMBDA d : d \in PowersOfTwo)

\* C33: with capacity 1 and a writer that takes nothing, of the n intents
\* fired the first is in the queue and the other n - 1 are counted dropped;
\* and whatever the capacity and the writer, a drop report was logged for
\* the counts 1, 2, 4, 8, ... the dropped counter has reached and for no
\* other.
C33_BackpressureSequence ==
    /\ (bp_cap = 1 /\ bp_writer = "blocked" /\ bp_next > 1)
          => /\ bp_queue = <<1>>
             /\ bp_dropped = (bp_next - 1) - 1
    /\ bp_log = ReportsUpTo(bp_dropped)

\* C33 witness: ten intents fired at the blocked queue of capacity 1
C33_TenIntentsNineDropped ==
    /\ bp_cap = 1
    /\ bp_writer = "blocked"
    /\ bp_next = 11
    /\ bp_queue = <<1>>
    /\ bp_dropped = 9
    /\ bp_log = <<1, 2, 4, 8>>

(***************************************************************************)
(* Global properties: renders and patches that write the places            *)
(* apply_global_props reads.                                               *)
(***************************************************************************)
\* {"app": {"title": 7}, "nav": {"stack": [1, 2]},
\*  "screen": {"name": "error", "vm": {"title": "T", "message": "M", "screen_module": "S"}}}
VmError ==
    JObj((K_app :> JObj(K_title :> JNum(7)))
         @@ (K_nav :> JObj(K_stack :> JArr(<<JNum(1), JNum(2)>>)))
         @@ (K_screen :> JObj((K_name :> JStr("error"))
                               @@ (K_vm :> JObj((K_title :> JStr("T"))
                                                @@ (K_message :> JStr("M"))
                                                @@ (K_screen_module :> JStr("S")))))))
PropVms == {VmHome, VmError, JArr(<<>>)}

OpsPop == << <<"remove", Path(<<K_nav, K_stack, T_1>>)>> >>
OpsPush == << <<"add", Path(<<K_nav, K_stack>>), JArr(<<JNum(1), JNum(2)>>)>> >>
OpsMessage == << <<"replace", Path(<<K_screen, K_vm, K_message>>), JNum(7)>> >>
PropOps == {OpsTitle, OpsPop, OpsPush, OpsMessage, OpsPartial}

NextProps ==
    \/ MainSendReady
    \/ MainDrop
    \/ MainShutdown
    \/ \E kind \in {"render", "patch"} : ReaderPost(kind)
    \/ \E frame \in EndingFrames : ReaderEnd(frame)
    \/ \E sid \in Sids, rev \in U64, vm \in PropVms, screen_render \in ScreenRenderResults :
          UiRender(sid, rev, vm, screen_render)
    \/ \E sid \in Sids, rev \in U64, ack \in {None}, ops \in PropOps,
          adapter \in ScreenRenderResults :
          UiPatch(sid, rev, ack, ops, adapter)
    \/ UiEnqueue
    \/ UiQuit
    \/ WorkerSend
    \/ WriterWrite
    \/ WriterExit

SpecProps == Init /\ [][NextProps]_vars

\* the string at `tokens` in `vm`, `default` if there is none
StringAt(vm, tokens, default) ==
    IF ~Exists(vm, tokens) THEN default
    ELSE IF Unwrap(ValueAt(vm, tokens))[1] = "str"
    THEN Unwrap(ValueAt(vm, tokens))[2]
    ELSE default

\* whether `tokens` holds an array of more than one element in `vm`
SeveralAt(vm, tokens) ==
    /\ Exists(vm, tokens)
    /\ IsArray(Unwrap(ValueAt(vm, tokens)))
    /\ Len(Unwrap(ValueAt(vm, tokens))[2]) > 1

\* the projection of a vm onto the global properties
Projection(vm) ==
    [app_title |-> StringAt(vm, <<K_app, K_title>>, "Projection"),
     active_screen |-> StringAt(vm, <<K_screen, K_name>>, "error"),
     nav_can_back |-> SeveralAt(vm, <<K_nav, K_stack>>),
     error_title |-> StringAt(vm, <<K_screen, K_vm, K_title>>, ""),
     error_message |-> StringAt(vm, <<K_screen, K_vm, K_message>>, ""),
     error_screen_module |-> StringAt(vm, <<K_screen, K_vm, K_screen_module>>, "")]

\* C39: whenever last_rev is present, the global properties the toolkit
\* holds are the projection of the current vm: the strings at /app/title
\* (else "Projection"), /screen/name (else "error"), /screen/vm/title,
\* /screen/vm/message and /screen/vm/screen_module (else ""), and whether
\* /nav/stack is an array of more than one element; a value that is no
\* string gives the default.
C39_GlobalPropsFollowVm ==
    ui_model_state.last_rev # None
       => ui_props = Some(Projection(ui_model_state.vm))

\* C39 witness: a patch was applied that left one element on the stack and
\* a number at /app/title
C39_PoppedToOne ==
    /\ ev.kind = "patch" /\ ev.outcome = "applied"
    /\ ui_model_state.last_rev # None
    /\ ValueAt(ui_model_state.vm, <<K_nav, K_stack>>) = Some(JArr(<<JNum(1)>>))
    /\ ValueAt(ui_model_state.vm, <<K_app, K_title>>) = Some(JNum(7))
    /\ ui_props # None
    /\ ~Unwrap(ui_props).nav_can_back
    /\ Unwrap(ui_props).app_title = "Projection"
    /\ Unwrap(ui_props).error_message = "M"

(***************************************************************************)
(* Resync with a controller that answers every Ready it receives with a    *)
(* render for the local sid, at a rev of its choice, and sends Error       *)
(* envelopes; the screen takes every render.  The user fires intents.      *)
(***************************************************************************)
\* the controller answers a Ready that was written to it: the reader decodes
\* the render and posts its closure (lib.rs 109-164)
ControllerAnswers ==
    /\ reader_pc = "read"
    /\ frames_read < MaxInbound
    /\ answered < ReadyWritten
    /\ answered' = answered + 1
    /\ frames_read' = frames_read + 1
    /\ ui_tasks' = Append(ui_tasks, "render")
    /\ UNCHANGED <<patch_vars, frame_vars, screen_vars, bp_vars, h_enqueued,
                   session_vars, intent_vars, ctrl_vars, resync_pending, chan, workers,
                   writer, stdout, main_pc, exit_code, err_env, reader_pc, reader_result,
                   reader_cause, ui_pc>>

NextResync ==
    \/ MainSendReady
    \/ MainDrop
    \/ MainShutdown
    \/ ControllerAnswers
    \/ \E code \in ErrorCodes : ReaderError(code)
    \/ ReaderEnqueue
    \/ \E frame \in EndingFrames : ReaderEnd(frame)
    \/ \E rev \in U64, i \in 1 .. Len(RenderVms), id \in ScreenIds :
          UiRender(LocalSid, rev, RenderVms[i], Ok(id))
    \/ UiEnqueue
    \/ UiQuit
    \/ CallbackBuild("on_intent", FALSE)
    \/ CallbackSend("on_intent")
    \/ WorkerSend
    \/ WriterWrite
    \/ WriterExit

SpecResync == Init /\ [][NextResync]_vars

\* a Ready is buffered, or a send of one is under way
ReadyOnItsWay ==
    \/ \E i \in DOMAIN chan : chan[i].t = "ready"
    \/ workers > 0
    \/ reader_pc = "enqueue"
    \/ ui_pc = "enqueue"
    \/ main_pc = "send_ready"

\* the host runs, a resync is pending, every Ready written has been
\* answered, every answer has been run, and the last one was rejected
ResyncStuck ==
    /\ main_pc = "loop" /\ reader_pc = "read" /\ writer = "running"
    /\ resync_pending
    /\ ~ReadyOnItsWay
    /\ answered = ReadyWritten
    /\ ui_tasks = <<>> /\ ui_pc = "idle"
    /\ ev.kind = "render" /\ ev.outcome # "applied"

\* C34: with a controller that answers every Ready with a render for the
\* local sid at a rev of its choice, the host never reaches a state where
\* resync_pending is true, no Ready is queued or in flight, and the awaited
\* render has been rejected.
C34_ResyncNeverStuck == ~ResyncStuck

====
